---------------------------- MODULE Spec2Model ----------------------------
(***************************************************************************)
(* SYMPOL2D: symmetry model (sympol2d/symmetry.py) and the full /          *)
(* representative stacking scanner (sympol2d/scanner.py).                  *)
(*                                                                         *)
(* Numbers.  The program computes with IEEE doubles and compares them      *)
(* against absolute tolerances (1e-6, 0.02, 2/n).  The model computes with *)
(* fixed-point integers: the real number r is the integer r * One, with    *)
(* One = 10^8, so the resolution (1e-8) is a hundred times finer than the  *)
(* smallest tolerance the modelled code uses (1e-6).  Products are         *)
(* truncated to the resolution (MulFix); a double rounds at 1e-16 instead. *)
(***************************************************************************)
EXTENDS Integers, Sequences, FiniteSets, TLC

VARIABLES layer_group,      \* LayerGroupSymmetry.layer_group (lower-cased symbol)
          operations,       \* LayerGroupSymmetry.operations (sequence of names)
          grid_size,        \* StackingScanner.grid_size
          call,             \* the method that has been called ("new": none yet)
          tau,              \* the stacking vector handed to the symmetry queries
          preserved,        \* result of test_symmetry_preservation(tau)
          stacking_type,    \* result of classify_stacking(tau)
          polar_direction,  \* result of _determine_polar_direction(...)
          results,          \* result of scan_grid()
          pairs,            \* result of find_polar_pairs()
          representatives,  \* result of get_representative_stackings()
          sign_flip,        \* result of the Z_SIGN_FLIP_EXPECTED lookup
          args,             \* arguments of the function or command that is run
          ret,              \* what it returned, or the exception it raised
          database,         \* the file at the --database path and its tables
          files             \* files written by the command

vars == <<layer_group, operations, grid_size, call, tau, preserved,
          stacking_type, polar_direction, results, pairs, representatives,
          sign_flip, args, ret, database, files>>

---------------------------------------------------------------------------
(* Bounds of the model *)

\* grid sizes 1..MaxGrid are scanned under Spec
MaxGrid == 6

\* the one fine grid scanned under SpecFine (1/FineGrid < 0.02)
FineGrid == 51

---------------------------------------------------------------------------
(* Fixed-point arithmetic *)

One == 10^8

Base == 10^4

Abs(x) == IF x < 0 THEN -x ELSE x

Min(a, b) == IF a <= b THEN a ELSE b

\* a * t / One for 0 <= a <= 3*One, 0 <= t < 2*One, without leaving 32 bits
MulFixPos(a, t) ==
    LET a1 == a \div Base
        a0 == a % Base
        t1 == t \div Base
        t0 == t % Base
    IN  a1 * t1 + ((a1 * t0 + a0 * t1) + ((a0 * t0) \div Base)) \div Base

MulFix(a, t) ==
    IF a < 0 THEN -MulFixPos(-a, t) ELSE MulFixPos(a, t)

\* np.sqrt(3)/2
Sqrt3Half == 86602540

Half == One \div 2

OpNames == {"E", "C2", "Mx", "My", "C6", "C3", "C4"}

\* OPER with the C2 entry mistyped as [[-1, 0], [0, 1]]
OPER_C2_mistyped ==
    [R \in OpNames |->
        CASE R = "E"  -> << <<One, 0>>, <<0, One>> >>
          [] R = "C2" -> << <<-One, 0>>, <<0, One>> >>
          [] R = "Mx" -> << <<One, 0>>, <<0, -One>> >>
          [] R = "My" -> << <<-One, 0>>, <<0, One>> >>
          [] R = "C6" -> << <<Half, -Sqrt3Half>>, <<Sqrt3Half, Half>> >>
          [] R = "C3" -> << <<-Half, -Sqrt3Half>>, <<Sqrt3Half, -Half>> >>
          [] R = "C4" -> << <<0, -One>>, <<One, 0>> >>]

\* 2x2 linear parts of the in-plane operations
OPER ==
    [R \in OpNames |->
        CASE R = "E"  -> << <<One, 0>>, <<0, One>> >>
          [] R = "C2" -> << <<-One, 0>>, <<0, -One>> >>
          [] R = "Mx" -> << <<One, 0>>, <<0, -One>> >>
          [] R = "My" -> << <<-One, 0>>, <<0, One>> >>
          [] R = "C6" -> << <<Half, -Sqrt3Half>>, <<Sqrt3Half, Half>> >>
          [] R = "C3" -> << <<-Half, -Sqrt3Half>>, <<Sqrt3Half, -Half>> >>
          [] R = "C4" -> << <<0, -One>>, <<One, 0>> >>]

RectOps == <<"E", "C2", "Mx", "My">>

HexOps == <<"E", "C6", "C3", "C2", "Mx", "My">>

LAYER_GROUP_OPERATIONS ==
    ("p2mm" :> RectOps) @@ ("pman" :> RectOps) @@ ("pmmm" :> RectOps) @@
    ("cmmm" :> RectOps) @@ ("pmm2" :> RectOps) @@ ("cmm2" :> RectOps) @@
    ("p1" :> <<"E">>) @@ ("p-1" :> <<"E", "C2">>) @@ ("p2" :> <<"E", "C2">>) @@
    ("pm" :> <<"E", "My">>) @@ ("pg" :> <<"E", "My">>) @@ ("cm" :> <<"E", "My">>) @@
    ("p2mg" :> RectOps) @@ ("p2gg" :> <<"E", "C2">>) @@ ("c2mm" :> RectOps) @@
    ("p-6m2" :> HexOps) @@ ("p6mm" :> HexOps) @@
    ("p3m1" :> <<"E", "C3", "C3", "Mx", "My">>) @@
    ("p31m" :> <<"E", "C3", "C3", "Mx", "My">>) @@
    ("p3" :> <<"E", "C3", "C3">>) @@
    ("p-3" :> <<"E", "C3", "C3", "C2">>) @@
    ("p-3m1" :> <<"E", "C3", "C3", "C2", "Mx", "My">>) @@
    ("p-31m" :> <<"E", "C3", "C3", "C2", "Mx", "My">>) @@
    ("p4" :> <<"E", "C4", "C2">>) @@
    ("p4mm" :> <<"E", "C4", "C2", "Mx", "My">>) @@
    ("p-4m2" :> <<"E", "C4", "C2", "Mx", "My">>) @@
    ("p-4" :> <<"E", "C4", "C2">>) @@
    ("p6" :> <<"E", "C6", "C3", "C2">>) @@
    ("p-6" :> <<"E", "C6", "C3", "C2">>)

\* the table with the triclinic group p-1 left at the default False
Z_SIGN_FLIP_EXPECTED_p1bar_false ==
    [g \in DOMAIN LAYER_GROUP_OPERATIONS |->
        g \in {"p-6m2", "p6mm", "p3m1", "p31m", "p-3m1", "p-31m", "p-6", "p6", "p3", "p-3"}]

Z_SIGN_FLIP_EXPECTED ==
    ("p-6m2" :> TRUE) @@ ("p6mm" :> TRUE) @@ ("p3m1" :> TRUE) @@ ("p31m" :> TRUE) @@
    ("p-3m1" :> TRUE) @@ ("p-31m" :> TRUE) @@ ("p-6" :> TRUE) @@ ("p6" :> TRUE) @@
    ("p3" :> TRUE) @@ ("p-3" :> TRUE) @@
    ("p-1" :> TRUE) @@
    ("p2mm" :> FALSE) @@ ("pman" :> FALSE) @@ ("pmmm" :> FALSE) @@ ("cmmm" :> FALSE) @@
    ("pmm2" :> FALSE) @@ ("cmm2" :> FALSE) @@ ("c2mm" :> FALSE) @@ ("p2mg" :> FALSE) @@
    ("p2" :> FALSE) @@ ("p2gg" :> FALSE) @@
    ("p4mm" :> FALSE) @@ ("p-4m2" :> FALSE) @@ ("p4" :> FALSE) @@ ("p-4" :> FALSE) @@
    ("pm" :> FALSE) @@ ("pg" :> FALSE) @@ ("cm" :> FALSE) @@
    ("p1" :> FALSE)

\* np.mod(v, 1.0), componentwise
mod1(v) == <<v[1] % One, v[2] % One>>

\* |x - rint(x)| for one component
FracDist(x) == Min(x % One, One - (x % One))

\* is_integer_vec with np.floor in the place of np.rint
is_integer_vec_floor(x, atol) == (x[1] % One) <= atol /\ (x[2] % One) <= atol

is_integer_vec(x, atol) == FracDist(x[1]) <= atol /\ FracDist(x[2]) <= atol

\* (np.eye(2) + M) @ t
EyePlusAt(M, t) ==
    << MulFix(One + M[1][1], t[1]) + MulFix(M[1][2], t[2]),
       MulFix(M[2][1], t[1]) + MulFix(One + M[2][2], t[2]) >>

survives(R, t, atol) == is_integer_vec(EyePlusAt(OPER[R], t), atol)


---------------------------------------------------------------------------
(* LayerGroupSymmetry *)

\* str.lower() on the symbols the model feeds in
Lower(s) ==
    CASE s = "P-6M2" -> "p-6m2"
      [] s = "P1" -> "p1"
      [] OTHER -> s

Range(s) == {s[k] : k \in 1..Len(s)}

\* keys of a dict filled in the order of s: first occurrences, in order
DictKeys(s) ==
    SelectSeq([k \in 1..Len(s) |->
                  IF \E m \in 1..(k - 1) : s[m] = s[k] THEN "" ELSE s[k]],
              LAMBDA x : x # "")

\* _generate_operations without the default for an unknown layer group
generate_operations_no_default(lg) ==
    LET op_names == IF lg \notin DOMAIN LAYER_GROUP_OPERATIONS
                    THEN << >>
                    ELSE LAYER_GROUP_OPERATIONS[lg]
    IN  SelectSeq(op_names, LAMBDA op_name : op_name \in DOMAIN OPER)

\* LayerGroupSymmetry._generate_operations: names of self.operations
generate_operations(lg) ==
    LET op_names == IF lg \notin DOMAIN LAYER_GROUP_OPERATIONS
                    THEN <<"E">>
                    ELSE LAYER_GROUP_OPERATIONS[lg]
    IN  SelectSeq(op_names, LAMBDA op_name : op_name \in DOMAIN OPER)

\* SymmetryOperation.type as set in _generate_operations
op_type(op_name) ==
    IF op_name \in {"Mx", "My"} THEN "mirror"
    ELSE IF op_name = "E" THEN "identity"
    ELSE "rotation"

\* the default atol=1e-8 of survives in the place of the tolerance
tolerance_survives_default == One \div 10^8

\* default tolerance of test_symmetry_preservation: 1e-6
tolerance == One \div 10^6

\* test_symmetry_preservation storing "broken" in the place of "preserved"
test_symmetry_preservation_inverted(ops, t) ==
    [name \in Range(ops) |-> ~survives(name, t, One \div 10^6)]

test_symmetry_preservation(ops, t) ==
    [name \in Range(ops) |-> survives(name, t, tolerance)]

\* classify_stacking as its docstring has it: 'polar' whenever an operation
\* is broken
classify_stacking_any_broken(ops, t) ==
    LET pres == test_symmetry_preservation(ops, t)
    IN  IF \A name \in DOMAIN pres : pres[name] THEN "AA" ELSE "polar"

classify_stacking(ops, t) ==
    LET pres == test_symmetry_preservation(ops, t)
    IN  IF \A name \in DOMAIN pres : pres[name]
        THEN "AA"
        ELSE IF \E k \in 1..Len(ops) :
                    /\ op_type(ops[k]) \in {"mirror", "inversion"}
                    /\ ~pres[ops[k]]
             THEN "polar"
             ELSE "AA"

\* [op for op, is_preserved in preserved.items() if not is_preserved]
broken_of(ops, pres) == SelectSeq(DictKeys(ops), LAMBDA op : ~pres[op])

\* [op for op, is_preserved in preserved.items() if is_preserved]
preserved_of(ops, pres) == SelectSeq(DictKeys(ops), LAMBDA op : pres[op])

get_broken_symmetries(ops, t) == broken_of(ops, test_symmetry_preservation(ops, t))

get_preserved_symmetries(ops, t) == preserved_of(ops, test_symmetry_preservation(ops, t))

---------------------------------------------------------------------------
(* StackingScanner *)

\* _determine_polar_direction looking for C2 among the broken operations
determine_polar_direction_c2_broken(broken_symmetries, preserved_symmetries) ==
    LET broken_set == Range(broken_symmetries)
        preserved_set == Range(preserved_symmetries)
        mx_broken == "Mx" \in broken_set
        my_broken == "My" \in broken_set
    IN  IF mx_broken /\ ~my_broken /\ "My" \in preserved_set THEN "x"
        ELSE IF my_broken /\ ~mx_broken /\ "Mx" \in preserved_set THEN "y"
        ELSE IF mx_broken /\ my_broken /\ "C2" \in broken_set THEN "z"
        ELSE "general"

determine_polar_direction(broken_symmetries, preserved_symmetries) ==
    LET broken_set == Range(broken_symmetries)
        preserved_set == Range(preserved_symmetries)
        mx_broken == "Mx" \in broken_set
        my_broken == "My" \in broken_set
        mxy_broken == "Mxy" \in broken_set
        mxy_minus_broken == "Mxy-" \in broken_set
        c2_preserved == "C2" \in preserved_set
    IN  IF mx_broken /\ ~my_broken /\ "My" \in preserved_set THEN "x"
        ELSE IF my_broken /\ ~mx_broken /\ "Mx" \in preserved_set THEN "y"
        ELSE IF mx_broken /\ my_broken /\ c2_preserved THEN "z"
        ELSE IF (mxy_broken \/ mxy_minus_broken) /\ ~(mx_broken /\ my_broken) THEN "xy"
        ELSE "general"

\* np.linspace(0, 1, n)[i], the endpoint left in: i/(n-1)
grid_1d_endpoint(n, i) ==
    IF n = 1 THEN 0
    ELSE i * (One \div (n - 1)) + (i * (One % (n - 1))) \div (n - 1)

\* np.linspace(0, 1, n, endpoint=False)[i]: numpy returns i * (1/n), which is
\* i/n to within the last place of a double; here i/n to the resolution,
\* computed as floor(i * One / n) without leaving 32 bits
grid_1d(n, i) == i * (One \div n) + (i * (One % n)) \div n

\* body of the double loop of scan_grid: the StackingConfiguration of one tau
make_config(ops, t) ==
    LET pres == test_symmetry_preservation(ops, t)
        preserved_ops == preserved_of(ops, pres)
        broken_ops == broken_of(ops, pres)
        st == classify_stacking(ops, t)
    IN  [tau |-> t,
         type |-> st,
         preserved_symmetries |-> preserved_ops,
         broken_symmetries |-> broken_ops,
         polar_direction |-> IF st = "polar"
                             THEN determine_polar_direction(broken_ops, preserved_ops)
                             ELSE "None"]

\* the n*n configurations in the order the double loop visits them
scan_all(ops, n) ==
    [k \in 1..(n * n) |->
        make_config(ops, <<grid_1d(n, (k - 1) \div n), grid_1d(n, (k - 1) % n)>>)]

scan_grid(ops, n) ==
    LET all == scan_all(ops, n)
    IN  [AA |-> SelectSeq(all, LAMBDA c : c.type = "AA"),
         polar |-> SelectSeq(all, LAMBDA c : c.type # "AA")]

---------------------------------------------------------------------------
(* StackingScanner.find_polar_pairs *)

high_symmetry_fractions ==
    << One \div 6, One \div 4, One \div 3, One \div 2,
       (2 * One) \div 3, (3 * One) \div 4, (5 * One) \div 6 >>

\* tolerance=0.02 of is_high_symmetry and of _get_symmetry_fraction
hs_tolerance == One \div 50

\* the 0.01 of "abs(frac - 1/3) < 0.01"
std_tolerance == One \div 100

NoFrac == -1

\* is_high_symmetry(tau): the first fraction both coordinates are close to,
\* NoFrac for (False, None)
is_high_symmetry(t) ==
    LET hits == {k \in 1..Len(high_symmetry_fractions) :
                    /\ Abs(t[1] - high_symmetry_fractions[k]) < hs_tolerance
                    /\ Abs(t[2] - high_symmetry_fractions[k]) < hs_tolerance}
    IN  IF hits = {} THEN NoFrac
        ELSE high_symmetry_fractions[CHOOSE k \in hits : \A m \in hits : k <= m]

symmetry_priority(config) ==
    LET frac == is_high_symmetry(config.tau)
    IN  IF frac # NoFrac
        THEN IF \/ Abs(frac - One \div 3) < std_tolerance
                \/ Abs(frac - (2 * One) \div 3) < std_tolerance
             THEN 0
             ELSE 1
        ELSE 2

pair_priority(pair) ==
    LET ab_frac == is_high_symmetry(pair[1].tau)
        ba_frac == is_high_symmetry(pair[2].tau)
    IN  IF ab_frac # NoFrac /\ ba_frac # NoFrac
        THEN IF /\ Abs(ab_frac - One \div 3) < std_tolerance
                /\ Abs(ba_frac - (2 * One) \div 3) < std_tolerance
             THEN 0
             ELSE 1
        ELSE 2

\* list.sort(key=...) with keys in {0, 1, 2}: stable
SortByPriority(s, key(_)) ==
    SelectSeq(s, LAMBDA e : key(e) = 0) \o
    SelectSeq(s, LAMBDA e : key(e) = 1) \o
    SelectSeq(s, LAMBDA e : key(e) = 2)

\* np.linalg.norm(a - b), squared, in units of 1/Base (so that it fits 32 bits)
NormSq(a, b) ==
    (Abs(a[1] - b[1]) \div Base) * (Abs(a[1] - b[1]) \div Base) +
    (Abs(a[2] - b[2]) \div Base) * (Abs(a[2] - b[2]) \div Base)

\* self.grid_size**(-1) * 2
pair_threshold(n) == (One \div n) * 2

\* distance < threshold
WithinThreshold(a, b, thr) ==
    /\ Abs(a[1] - b[1]) < thr
    /\ Abs(a[2] - b[2]) < thr
    /\ NormSq(a, b) < (thr \div Base) * (thr \div Base)

\* 1.0 - tau1, the wrap to [0,1) left out
inversion_target_no_wrap(t) == <<One - t[1], One - t[2]>>

\* (1.0 - tau1) % 1.0
inversion_target(t) == mod1(<<One - t[1], One - t[2]>>)

\* the inner loop: index of best_match among the unmatched later points,
\* 0 when best_match stays None
best_match_index(ps, n, i, used) ==
    LET target_tau == inversion_target(ps[i].tau)
        thr == pair_threshold(n)
        cand == {j \in (i + 1)..Len(ps) :
                    WithinThreshold(ps[j].tau, target_tau, thr) /\ j \notin used}
    IN  IF cand = {} THEN 0
        ELSE CHOOSE j \in cand :
                \A m \in cand :
                    \/ NormSq(ps[j].tau, target_tau) < NormSq(ps[m].tau, target_tau)
                    \/ /\ NormSq(ps[j].tau, target_tau) = NormSq(ps[m].tau, target_tau)
                       /\ j <= m

\* np.sum(tau)
tau_sum(t) == t[1] + t[2]

\* pair_step that does not record the two members as used
pair_step_members_not_marked(ps, n, i, st) ==
    LET best_j == best_match_index(ps, n, i, st.used)
    IN  IF best_j = 0 THEN st
        ELSE IF Range(ps[i].broken_symmetries) # Range(ps[best_j].broken_symmetries)
        THEN st
        ELSE [used |-> st.used,
              pairs |-> Append(st.pairs,
                               IF tau_sum(ps[i].tau) < tau_sum(ps[best_j].tau)
                               THEN << [ps[i] EXCEPT !.type = "AB"],
                                       [ps[best_j] EXCEPT !.type = "BA"] >>
                               ELSE << [ps[best_j] EXCEPT !.type = "AB"],
                                       [ps[i] EXCEPT !.type = "BA"] >>)]

\* one iteration of the outer loop; st = [used, pairs]
pair_step(ps, n, i, st) ==
    IF i \in st.used THEN st
    ELSE
        LET best_j == best_match_index(ps, n, i, st.used)
        IN  IF best_j = 0 THEN st
            ELSE IF Range(ps[i].broken_symmetries) # Range(ps[best_j].broken_symmetries)
            THEN st
            ELSE
                LET config1 == ps[i]
                    best_match == ps[best_j]
                    pair == IF tau_sum(config1.tau) < tau_sum(best_match.tau)
                            THEN << [config1 EXCEPT !.type = "AB"],
                                    [best_match EXCEPT !.type = "BA"] >>
                            ELSE << [best_match EXCEPT !.type = "AB"],
                                    [config1 EXCEPT !.type = "BA"] >>
                IN  [used |-> st.used \cup {i, best_j},
                     pairs |-> Append(st.pairs, pair)]

\* the outer loop over lo..hi, in order: the first half, then the second
\* (the test on first_half makes TLC finish the first half before it starts
\* the second, which keeps its evaluation stack shallow)
RECURSIVE pair_loop(_, _, _, _, _)
pair_loop(ps, n, lo, hi, st) ==
    IF lo > hi THEN st
    ELSE IF lo = hi THEN pair_step(ps, n, lo, st)
    ELSE LET mid == (lo + hi) \div 2
             first_half == pair_loop(ps, n, lo, mid, st)
         IN  IF Len(first_half.pairs) >= 0
             THEN pair_loop(ps, n, mid + 1, hi, first_half)
             ELSE st

find_polar_pairs(ops, n) ==
    LET polar_stackings == scan_grid(ops, n).polar
    IN  IF polar_stackings = << >> THEN << >>
        ELSE
            LET sorted == SortByPriority(polar_stackings, symmetry_priority)
                done == pair_loop(sorted, n, 1, Len(sorted),
                                  [used |-> {}, pairs |-> << >>])
            IN  SortByPriority(done.pairs, pair_priority)

---------------------------------------------------------------------------
(* StackingScanner.get_representative_stackings *)

common_fractions == << <<1, 6>>, <<1, 4>>, <<1, 3>>, <<1, 2>>, <<2, 3>>, <<3, 4>>, <<5, 6>> >>

\* _get_symmetry_fraction(tau): (num, den), or << >> for None
get_symmetry_fraction(t) ==
    LET hits == {k \in 1..Len(common_fractions) :
                    LET frac_val == (common_fractions[k][1] * One) \div common_fractions[k][2]
                    IN  /\ Abs(t[1] - frac_val) < hs_tolerance
                        /\ Abs(t[2] - frac_val) < hs_tolerance}
    IN  IF hits = {} THEN << >>
        ELSE common_fractions[CHOOSE k \in hits : \A m \in hits : k <= m]

\* aa_stackings[np.argmax(origin_dist)]
closest_to_origin_argmax(aa_stackings) ==
    LET origin == <<0, 0>>
        k == CHOOSE k \in 1..Len(aa_stackings) :
                \A m \in 1..Len(aa_stackings) :
                    \/ NormSq(aa_stackings[k].tau, origin) > NormSq(aa_stackings[m].tau, origin)
                    \/ /\ NormSq(aa_stackings[k].tau, origin) = NormSq(aa_stackings[m].tau, origin)
                       /\ k <= m
    IN  aa_stackings[k]

\* aa_stackings[np.argmin(origin_dist)]: the first of the closest
closest_to_origin(aa_stackings) ==
    LET origin == <<0, 0>>
        k == CHOOSE k \in 1..Len(aa_stackings) :
                \A m \in 1..Len(aa_stackings) :
                    \/ NormSq(aa_stackings[k].tau, origin) < NormSq(aa_stackings[m].tau, origin)
                    \/ /\ NormSq(aa_stackings[k].tau, origin) = NormSq(aa_stackings[m].tau, origin)
                       /\ k <= m
    IN  aa_stackings[k]

\* The keys of the returned dict are sequences: <<"AB">> is 'AB',
\* <<"AB", num, den>> is f'AB_{num}_{den}', <<"AB", i>> is f'AB{i}'.
\* The two assignments the loop body makes for the pair at position k >= 2.
extra_names(ps, k) ==
    LET ab_frac == get_symmetry_fraction(ps[k][1].tau)
        ba_frac == get_symmetry_fraction(ps[k][2].tau)
    IN  IF ab_frac # << >> /\ ba_frac # << >>
        THEN << <<"AB", ab_frac[1], ab_frac[2]>>, <<"BA", ba_frac[1], ba_frac[2]>> >>
        ELSE << <<"AB", k>>, <<"BA", k>> >>

\* the assignments representatives[key] = value, in program order
representative_assignments(aa_stackings, ps) ==
    (IF aa_stackings # << >>
     THEN << << <<"AA">>, closest_to_origin(aa_stackings) >> >>
     ELSE << >>) \o
    (IF ps # << >>
     THEN << << <<"AB">>, ps[1][1] >>, << <<"BA">>, ps[1][2] >> >>
     ELSE << >>) \o
    [m \in 1..(2 * (IF ps = << >> THEN 0 ELSE Len(ps) - 1)) |->
        LET k == 2 + ((m - 1) \div 2)
            side == 1 + ((m - 1) % 2)
        IN  << extra_names(ps, k)[side], ps[k][side] >>]

\* a dict after a sequence of assignments: the last one to a key wins
DictOf(assignments) ==
    [key \in {assignments[m][1] : m \in 1..Len(assignments)} |->
        assignments[CHOOSE m \in 1..Len(assignments) :
                        /\ assignments[m][1] = key
                        /\ \A q \in 1..Len(assignments) :
                              assignments[q][1] = key => q <= m][2]]

get_representative_stackings(ops, n) ==
    DictOf(representative_assignments(scan_grid(ops, n).AA, find_polar_pairs(ops, n)))

---------------------------------------------------------------------------
(* Inputs *)

\* layer-group symbols handed to the constructors: the catalogue, two
\* upper-case spellings and two symbols that are in no table
LayerGroupInputs == (DOMAIN LAYER_GROUP_OPERATIONS) \cup {"P-6M2", "P1", "p-9", "xyz"}

\* grid_size default of StackingScanner
DefaultGrid == 50

\* coordinates of the stacking vectors handed to the symmetry queries:
\* the grid coordinates i/n, the decimals 0.3333 and 0.6667, values a few
\* 1e-7 away from 0, 1/2 and 1, and sqrt(3)/6 with its partner 1 - sqrt(3)/6
Nudge == 30

TauCoords ==
    {grid_1d(n, i) : n \in 1..MaxGrid, i \in 0..(MaxGrid - 1)} \cap 0..(One - 1)

ProbeCoords ==
    {33330000, 66670000, Nudge, One - Nudge, Half + Nudge, 28867513, 71132487}

TauInputs == (TauCoords \cup ProbeCoords) \X (TauCoords \cup ProbeCoords)

NoDict == << >>

NoResults == [AA |-> << >>, polar |-> << >>]

\* the LayerGroupSymmetry / StackingScanner fields and the results not yet computed
InitSymmetry(lg, n, t) ==
    /\ layer_group = Lower(lg)
    /\ operations = generate_operations(Lower(lg))
    /\ grid_size = n
    /\ tau = t
    /\ call = {}
    /\ preserved = NoDict
    /\ stacking_type = "None"
    /\ polar_direction = "None"
    /\ results = NoResults
    /\ pairs = << >>
    /\ representatives = NoDict
    /\ sign_flip = "None"

InitObject(lg, n, t) ==
    /\ InitSymmetry(lg, n, t)
    /\ args = << >>
    /\ ret = << >>
    /\ database = << >>
    /\ files = {}

---------------------------------------------------------------------------
(* Scanner runs: StackingScanner(layer_group, grid_size) and one call *)

Init ==
    \E lg \in LayerGroupInputs, n \in 1..MaxGrid : InitObject(lg, n, <<0, 0>>)

ScanGrid ==
    /\ call = {}
    /\ call' = {"scan_grid"}
    /\ results' = scan_grid(operations, grid_size)
    /\ UNCHANGED <<layer_group, operations, grid_size, tau, preserved, stacking_type,
                   polar_direction, pairs, representatives, sign_flip>>
    /\ UNCHANGED <<args, ret, database, files>>

FindPolarPairs ==
    /\ call = {}
    /\ call' = {"find_polar_pairs"}
    /\ pairs' = find_polar_pairs(operations, grid_size)
    /\ UNCHANGED <<layer_group, operations, grid_size, tau, preserved, stacking_type,
                   polar_direction, results, representatives, sign_flip>>
    /\ UNCHANGED <<args, ret, database, files>>

GetRepresentativeStackings ==
    /\ call = {}
    /\ call' = {"get_representative_stackings"}
    /\ representatives' = get_representative_stackings(operations, grid_size)
    /\ UNCHANGED <<layer_group, operations, grid_size, tau, preserved, stacking_type,
                   polar_direction, results, pairs, sign_flip>>
    /\ UNCHANGED <<args, ret, database, files>>

\* Z_SIGN_FLIP_EXPECTED[layer_group]
SignFlipLookup ==
    /\ call = {}
    /\ call' = {"sign_flip"}
    /\ sign_flip' = IF layer_group \notin DOMAIN Z_SIGN_FLIP_EXPECTED THEN "KeyError"
                    ELSE IF Z_SIGN_FLIP_EXPECTED[layer_group] THEN "True"
                    ELSE "False"
    /\ UNCHANGED <<layer_group, operations, grid_size, tau, preserved, stacking_type,
                   polar_direction, results, pairs, representatives>>
    /\ UNCHANGED <<args, ret, database, files>>

Next == ScanGrid \/ FindPolarPairs \/ GetRepresentativeStackings \/ SignFlipLookup

Spec == Init /\ [][Next]_vars

\* the same runs, with the fine grid added for the hexagonal group p-6m2
InitFine ==
    \/ Init
    \/ InitObject("p-6m2", FineGrid, <<0, 0>>)

SpecFine == InitFine /\ [][Next]_vars

---------------------------------------------------------------------------
(* Symmetry queries on one stacking vector, as test_hBN_configurations      *)
(* makes them: LayerGroupSymmetry(lg), StackingScanner(lg), then the calls  *)

InitTau ==
    \E lg \in LayerGroupInputs, t \in TauInputs : InitObject(lg, DefaultGrid, t)

TestSymmetryPreservation ==
    /\ "test_symmetry_preservation" \notin call
    /\ call' = call \cup {"test_symmetry_preservation"}
    /\ preserved' = test_symmetry_preservation(operations, tau)
    /\ UNCHANGED <<layer_group, operations, grid_size, tau, stacking_type,
                   polar_direction, results, pairs, representatives, sign_flip>>
    /\ UNCHANGED <<args, ret, database, files>>

ClassifyStacking ==
    /\ "classify_stacking" \notin call
    /\ call' = call \cup {"classify_stacking"}
    /\ stacking_type' = classify_stacking(operations, tau)
    /\ UNCHANGED <<layer_group, operations, grid_size, tau, preserved,
                   polar_direction, results, pairs, representatives, sign_flip>>
    /\ UNCHANGED <<args, ret, database, files>>

\* called with get_broken_symmetries(tau), get_preserved_symmetries(tau)
\* when the stacking type is 'polar'
DeterminePolarDirection ==
    /\ "classify_stacking" \in call
    /\ stacking_type = "polar"
    /\ "determine_polar_direction" \notin call
    /\ call' = call \cup {"determine_polar_direction"}
    /\ polar_direction' = determine_polar_direction(
                              get_broken_symmetries(operations, tau),
                              get_preserved_symmetries(operations, tau))
    /\ UNCHANGED <<layer_group, operations, grid_size, tau, preserved,
                   stacking_type, results, pairs, representatives, sign_flip>>
    /\ UNCHANGED <<args, ret, database, files>>

NextTau == TestSymmetryPreservation \/ ClassifyStacking \/ DeterminePolarDirection

SpecTau == InitTau /\ [][NextTau]_vars

---------------------------------------------------------------------------
(* Claims about the symmetry queries (SpecTau) *)

Called(name) == name \in call

CatalogueHasC2MxMy ==
    /\ layer_group \in DOMAIN LAYER_GROUP_OPERATIONS
    /\ {"C2", "Mx", "My"} \subseteq Range(LAYER_GROUP_OPERATIONS[layer_group])

ReportsPolarZ ==
    /\ Called("test_symmetry_preservation") =>
          ~preserved["Mx"] /\ ~preserved["My"] /\ preserved["C2"]
    /\ Called("classify_stacking") => stacking_type = "polar"
    /\ Called("determine_polar_direction") => polar_direction = "z"

\* C1 as stated: in a group with C2, Mx and My, every tau with neither
\* coordinate in {0, 1/2} is reported with Mx and My broken, C2 preserved,
\* classified 'polar', direction 'z'.
C1_AsStated ==
    (CatalogueHasC2MxMy /\ tau[1] \notin {0, Half} /\ tau[2] \notin {0, Half})
        => ReportsPolarZ

\* C1, amended: the same for every tau for which neither 2*tau_x nor 2*tau_y
\* is within the tolerance 1e-6 of an integer.
C1_PolarZOutsideTolerance ==
    (/\ CatalogueHasC2MxMy
     /\ FracDist(2 * tau[1]) > One \div 10^6
     /\ FracDist(2 * tau[2]) > One \div 10^6)
        => ReportsPolarZ

C1_Witness ==
    /\ layer_group = "p-6m2"
    /\ tau = <<One \div 3, One \div 3>>
    /\ call = {"test_symmetry_preservation", "classify_stacking",
               "determine_polar_direction"}
    /\ ~preserved["Mx"] /\ ~preserved["My"] /\ preserved["C2"]
    /\ stacking_type = "polar"
    /\ polar_direction = "z"

\* C2: for every catalogued layer group, at tau = (0,0) every operation of
\* the catalogue is reported preserved and classify_stacking returns 'AA'.
C2_OriginAllPreservedAA ==
    (layer_group \in DOMAIN LAYER_GROUP_OPERATIONS /\ tau = <<0, 0>>) =>
        /\ Called("test_symmetry_preservation") =>
              /\ DOMAIN preserved = Range(LAYER_GROUP_OPERATIONS[layer_group])
              /\ \A name \in DOMAIN preserved : preserved[name]
        /\ Called("classify_stacking") => stacking_type = "AA"

C2_Witness ==
    /\ layer_group = "p-6m2"
    /\ tau = <<0, 0>>
    /\ call = {"test_symmetry_preservation", "classify_stacking"}
    /\ DOMAIN preserved = {"E", "C6", "C3", "C2", "Mx", "My"}
    /\ stacking_type = "AA"

\* what the three queries return for a stacking vector t
direction_of(ops, t) ==
    determine_polar_direction(get_broken_symmetries(ops, t),
                              get_preserved_symmetries(ops, t))

\* C4 as stated: in every catalogued group, tau and its inversion partner
\* mod1(1 - tau) have the same preserved/broken operations, the same
\* classification and the same polar direction.
C4_AsStated ==
    layer_group \in DOMAIN LAYER_GROUP_OPERATIONS =>
        LET partner == mod1(<<One - tau[1], One - tau[2]>>)
        IN  /\ Called("test_symmetry_preservation") =>
                  preserved = test_symmetry_preservation(operations, partner)
            /\ Called("classify_stacking") =>
                  stacking_type = classify_stacking(operations, partner)
            /\ Called("determine_polar_direction") =>
                  polar_direction = direction_of(operations, partner)

\* the operations whose matrix has integer entries
IntegerMatrixOps == {"E", "C2", "Mx", "My", "C4"}

\* C4, amended: tau and mod1(1 - tau) agree on every operation with an
\* integer matrix (E, C2, Mx, My, C4), on the classification and on the polar
\* direction; on C3 and C6 they agree as well for tau = (1/3,1/3), whose
\* partner is (2/3,2/3).
C4_PartnerAgreesOnIntegerOps ==
    layer_group \in DOMAIN LAYER_GROUP_OPERATIONS =>
        LET partner == mod1(<<One - tau[1], One - tau[2]>>)
            there == test_symmetry_preservation(operations, partner)
        IN  /\ Called("test_symmetry_preservation") =>
                  /\ \A name \in DOMAIN preserved \cap IntegerMatrixOps :
                        preserved[name] = there[name]
                  /\ tau = <<One \div 3, One \div 3>> => preserved = there
            /\ Called("classify_stacking") =>
                  stacking_type = classify_stacking(operations, partner)
            /\ Called("determine_polar_direction") =>
                  polar_direction = direction_of(operations, partner)

C4_Witness ==
    /\ layer_group = "p-6m2"
    /\ tau = <<(2 * One) \div 3, (2 * One) \div 3>>
    /\ call = {"test_symmetry_preservation", "classify_stacking",
               "determine_polar_direction"}
    /\ preserved = test_symmetry_preservation(operations, <<One \div 3 + 1, One \div 3 + 1>>)
    /\ polar_direction = "z"

\* C6: C2 is reported preserved at every tau: survives('C2', tau) holds at
\* either tolerance, and in every group containing C2 the configuration of
\* tau lists C2 as preserved and not as broken.
C6_C2AlwaysPreserved ==
    /\ survives("C2", tau, tolerance)
    /\ survives("C2", tau, 1)
    /\ "C2" \in Range(operations) =>
          /\ Called("test_symmetry_preservation") => preserved["C2"]
          /\ "C2" \in Range(make_config(operations, tau).preserved_symmetries)
          /\ "C2" \notin Range(make_config(operations, tau).broken_symmetries)

C6_Witness ==
    /\ layer_group = "p4"
    /\ tau = <<Nudge, 28867513>>
    /\ Called("test_symmetry_preservation")
    /\ preserved["C2"]
    /\ ~preserved["E"]

---------------------------------------------------------------------------
(* Claims about the scanner (Spec, SpecFine) *)

\* x is i/n to the resolution
IsFraction(x, i, n) == i * One - n < x * n /\ x * n <= i * One

\* b is the grid point ((n-i) mod n / n, (n-j) mod n / n) of a = (i/n, j/n)
IsGridInverse(n, a, b) ==
    \E i, j \in 0..(n - 1) :
        /\ IsFraction(a[1], i, n) /\ IsFraction(a[2], j, n)
        /\ IsFraction(b[1], (n - i) % n, n) /\ IsFraction(b[2], (n - j) % n, n)

\* C3: every (AB, BA) pair of find_polar_pairs, and every AB entry of
\* get_representative_stackings with its BA entry, is an exact inversion pair
\* on the grid: tau_AB = (i/n, j/n), tau_BA = ((n-i) mod n / n, (n-j) mod n / n).
C3_PairsAreGridInversions ==
    /\ call = {"find_polar_pairs"} =>
          \A k \in 1..Len(pairs) :
              /\ pairs[k][1].type = "AB" /\ pairs[k][2].type = "BA"
              /\ IsGridInverse(grid_size, pairs[k][1].tau, pairs[k][2].tau)
    /\ call = {"get_representative_stackings"} =>
          \A key \in DOMAIN representatives :
              key[1] = "AB" =>
                  \E other \in DOMAIN representatives :
                      /\ other[1] = "BA"
                      /\ Len(other) = Len(key)
                      /\ IsGridInverse(grid_size, representatives[key].tau,
                                       representatives[other].tau)

C3_Witness ==
    /\ call = {"find_polar_pairs"}
    /\ layer_group = "p-6m2"
    /\ grid_size = 5
    /\ Len(pairs) = 12
    /\ \E k \in 1..Len(pairs) :
          /\ pairs[k][1].tau = <<One \div 5, (2 * One) \div 5>>
          /\ pairs[k][2].tau = <<(4 * One) \div 5, (3 * One) \div 5>>

\* C5 as stated: every configuration scan_grid puts in its 'AA' list has an
\* empty broken_symmetries list.
C5_AsStated ==
    call = {"scan_grid"} =>
        \A k \in 1..Len(results.AA) :
            /\ results.AA[k].type = "AA"
            /\ results.AA[k].broken_symmetries = << >>

\* C7: scan_grid evaluates exactly n*n stacking vectors, one per (i/n, j/n)
\* with 0 <= i, j < n, every coordinate in [0,1), each in exactly one of the
\* lists 'AA' and 'polar'.
C7_GridPartition ==
    call = {"scan_grid"} =>
        LET all == results.AA \o results.polar
            n == grid_size
        IN  /\ Len(results.AA) + Len(results.polar) = n * n
            /\ \A k \in 1..Len(all) :
                  /\ all[k].tau[1] \in 0..(One - 1)
                  /\ all[k].tau[2] \in 0..(One - 1)
            /\ \A i, j \in 0..(n - 1) :
                  Cardinality({k \in 1..Len(all) :
                                  /\ IsFraction(all[k].tau[1], i, n)
                                  /\ IsFraction(all[k].tau[2], j, n)}) = 1
            /\ \A k \in 1..Len(results.AA) : results.AA[k].type = "AA"
            /\ \A k \in 1..Len(results.polar) : results.polar[k].type = "polar"

C7_Witness ==
    /\ call = {"scan_grid"}
    /\ layer_group = "p4mm"
    /\ grid_size = 4
    /\ Len(results.AA) = 4
    /\ Len(results.polar) = 12

\* C8: for every layer group, catalogued or not, and every grid size,
\* get_representative_stackings has the key 'AA', and its value is the AA
\* point closest to the origin, which is tau = (0,0).
C8_RepresentativeAAIsOrigin ==
    call = {"get_representative_stackings"} =>
        /\ <<"AA">> \in DOMAIN representatives
        /\ representatives[<<"AA">>].tau = <<0, 0>>
        /\ representatives[<<"AA">>].type = "AA"
        /\ LET aa == scan_grid(operations, grid_size).AA
           IN  /\ \E k \in 1..Len(aa) : aa[k] = representatives[<<"AA">>]
               /\ \A k \in 1..Len(aa) :
                     tau_sum(representatives[<<"AA">>].tau) <= tau_sum(aa[k].tau)

C8_Witness ==
    /\ call = {"get_representative_stackings"}
    /\ layer_group = "xyz"
    /\ operations = <<"E">>
    /\ grid_size = 4
    /\ DOMAIN representatives = {<<"AA">>}
    /\ representatives[<<"AA">>].tau = <<0, 0>>

IsStandardPair(pair) ==
    /\ pair[1].tau = <<One \div 3, One \div 3>>
    /\ pair[2].tau = <<(2 * One) \div 3, (2 * One) \div 3>>

\* C9 as stated: whenever the pair (1/3,1/3), (2/3,2/3) is among the pairs
\* found, it is the first pair find_polar_pairs returns, and the pair that
\* get_representative_stackings stores under 'AB' and 'BA'.
C9_AsStated ==
    /\ (call = {"find_polar_pairs"} /\ \E k \in 1..Len(pairs) : IsStandardPair(pairs[k]))
          => IsStandardPair(pairs[1])
    /\ (/\ call = {"get_representative_stackings"}
        /\ grid_size % 3 = 0
        /\ classify_stacking(operations, <<One \div 3, One \div 3>>) = "polar")
          => /\ <<"AB">> \in DOMAIN representatives
             /\ <<"BA">> \in DOMAIN representatives
             /\ IsStandardPair(<<representatives[<<"AB">>], representatives[<<"BA">>]>>)

SignFlipTrueGroups ==
    {"p-6m2", "p6mm", "p3m1", "p31m", "p-3m1", "p-31m", "p6", "p-6", "p3", "p-3", "p-1"}

\* C10: the sign-flip table is defined for exactly the layer groups of
\* LAYER_GROUP_OPERATIONS; it maps p-6m2, p6mm, p3m1, p31m, p-3m1, p-31m, p6,
\* p-6, p3, p-3 and p-1 to True and every other catalogued group to False.
C10_SignFlipTable ==
    call = {"sign_flip"} =>
        /\ sign_flip = "KeyError" <=> layer_group \notin DOMAIN LAYER_GROUP_OPERATIONS
        /\ sign_flip = "True" <=> layer_group \in SignFlipTrueGroups
        /\ sign_flip = "False" <=>
              layer_group \in (DOMAIN LAYER_GROUP_OPERATIONS) \ SignFlipTrueGroups

C10_Witness ==
    /\ call = {"sign_flip"}
    /\ layer_group = "p-1"
    /\ sign_flip = "True"


---------------------------------------------------------------------------
(* Lean z-focused scanner: classify_z_allowed (sympol2d/symmetry.py) and    *)
(* the selection of the single best pair.  The selection routine itself is  *)
(* described in the design document only (section 4.3, "Lean z-focused      *)
(* scanner"); it is modelled from that description.                         *)

\* the symmetry queries are idle in the runs below
IdleSymmetry == InitSymmetry("p1", DefaultGrid, <<0, 0>>)

symmetry_vars == <<layer_group, operations, grid_size, tau, preserved,
                   stacking_type, polar_direction, results, pairs,
                   representatives, sign_flip>>

\* classify_z_allowed with the two "not" dropped
classify_z_allowed_mirrors_kept(survivors) ==
    LET ops == Range(survivors)
    IN  IF "C2" \in ops /\ "Mx" \in ops /\ "My" \in ops
        THEN <<TRUE, "z-only">>
        ELSE <<TRUE, "z-allowed">>

\* classify_z_allowed rejecting a candidate at which both mirrors survive
classify_z_allowed_mirrors_forbid(survivors) ==
    LET ops == Range(survivors)
    IN  IF "Mx" \in ops /\ "My" \in ops THEN <<FALSE, "z-forbidden">>
        ELSE IF "C2" \in ops /\ "Mx" \notin ops /\ "My" \notin ops
        THEN <<TRUE, "z-only">>
        ELSE <<TRUE, "z-allowed">>

classify_z_allowed(survivors) ==
    LET ops == Range(survivors)
        mx == "Mx" \in ops
        my == "My" \in ops
        c2 == "C2" \in ops
    IN  IF c2 /\ ~mx /\ ~my
        THEN <<TRUE, "z-only">>
        ELSE <<TRUE, "z-allowed">>

\* default atol of survives: 1e-8
lean_atol == One \div 10^8

\* surviving-operation list of one grid point
survivors_at(lg, t) ==
    SelectSeq(LAYER_GROUP_OPERATIONS[lg], LAMBDA R : survives(R, t, lean_atol))

\* candidate record of one grid point: the point and its tag
candidate(lg, t) ==
    [tau |-> t, tag |-> classify_z_allowed(survivors_at(lg, t))[2]]

OneThird == One \div 3

TwoThirds == (2 * One) \div 3

\* within 0.01 of 1/3 or of 2/3
near_third(c) ==
    \/ Abs(c - OneThird) <= One \div 100
    \/ Abs(c - TwoThirds) <= One \div 100

score_fractions ==
    {Half, OneThird, TwoThirds, One \div 4, (3 * One) \div 4,
     One \div 6, (5 * One) \div 6}

SetMin(S) == CHOOSE m \in S : \A o \in S : m <= o

\* rational-fraction score, lowest wins
rational_score(t) ==
    IF near_third(t[1]) /\ near_third(t[2])
    THEN IF Abs(t[1] - t[2]) > One \div 5 THEN 0 ELSE One \div 10
    ELSE One + SetMin({Abs(t[1] - f) : f \in score_fractions})
             + SetMin({Abs(t[2] - f) : f \in score_fractions})

\* summed distance to the nearest mirror line (lines at 0, 1/2, 1)
mirror_distance(t) ==
    SetMin({Abs(t[1]), Abs(t[1] - Half), Abs(t[1] - One)})
  + SetMin({Abs(t[2]), Abs(t[2] - Half), Abs(t[2] - One)})

\* the candidates that the three ranking rules leave in first place
best_candidates(cands) ==
    LET z_only == {c \in cands : c.tag = "z-only"}
        pool == IF z_only # {} THEN z_only ELSE cands
        low == {c \in pool :
                   \A o \in pool : rational_score(c.tau) <= rational_score(o.tau)}
    IN  {c \in low : \A o \in low :
                        mirror_distance(c.tau) >= mirror_distance(o.tau)}

\* the pair returned for a winning candidate
best_pair_of(c) ==
    [tau_AB |-> c.tau, tau_BA |-> mod1(<<One - c.tau[1], One - c.tau[2]>>)]

\* (1/3, 2/3), the point the selection is expected to prefer
TauThirds == <<OneThird, TwoThirds>>

\* the other points a candidate set is built of: diagonal (1/3,1/3),
\* (1/2,1/2), (1/4,3/4), the origin, a point near no simple fraction,
\* (2/3,1/3), and (0.33,0.67), which lies within 0.01 of (1/3,2/3)
OtherTaus ==
    {<<OneThird, OneThird>>, <<Half, Half>>, <<One \div 4, (3 * One) \div 4>>,
     <<0, 0>>, <<20000000, 70000000>>, <<TwoThirds, OneThird>>,
     <<33000000, 67000000>>}

InitPick ==
    /\ IdleSymmetry
    /\ call = {}
    /\ \E lg \in DOMAIN LAYER_GROUP_OPERATIONS, others \in SUBSET OtherTaus :
          args = [layer_group |-> lg,
                  cands |-> {candidate(lg, t) : t \in {TauThirds} \cup others}]
    /\ ret = << >>
    /\ database = << >>
    /\ files = {}

\* pick_best_pair(cands): ties that the three rules leave are not ordered
\* by the description, so any of the tied candidates may be returned
PickBestPair ==
    /\ call = {}
    /\ call' = {"pick_best_pair"}
    /\ \E c \in best_candidates(args.cands) : ret' = best_pair_of(c)
    /\ UNCHANGED <<symmetry_vars, args, database, files>>

NextPick == PickBestPair

SpecPick == InitPick /\ [][NextPick]_vars

\* C11 as stated: pick_best_pair, applied to any candidate set that contains
\* (1/3,2/3) together with other points, returns (1/3,2/3) as the winning tau
\* and mod1(1 - (1/3,2/3)) = (2/3,1/3) as its partner.
C11_AsStated ==
    Called("pick_best_pair") =>
        /\ ret.tau_AB = TauThirds
        /\ ret.tau_BA = mod1(<<One - OneThird, One - TwoThirds>>)

\* the other candidates are less rational: their rational-fraction score is
\* above the 0.0 of (1/3,2/3)
OthersLessRational ==
    \A c \in args.cands : c.tau # TauThirds => rational_score(c.tau) > 0

\* C11, amended: when every other candidate has a rational-fraction score
\* above 0.0, pick_best_pair returns (1/3,2/3) as the winning tau and
\* mod1(1 - (1/3,2/3)), which is (2/3,1/3), as its partner.
C11_ThirdsWinOverLessRational ==
    (Called("pick_best_pair") /\ OthersLessRational) =>
        /\ ret.tau_AB = TauThirds
        /\ ret.tau_BA = mod1(<<One - OneThird, One - TwoThirds>>)
        /\ Abs(ret.tau_BA[1] - TwoThirds) <= 1
        /\ Abs(ret.tau_BA[2] - OneThird) <= 1

C11_Witness ==
    /\ Called("pick_best_pair")
    /\ args.layer_group = "p-6m2"
    /\ OthersLessRational
    /\ {c.tau : c \in args.cands} =
          {TauThirds, <<OneThird, OneThird>>, <<Half, Half>>, <<0, 0>>,
           <<One \div 4, (3 * One) \div 4>>}
    /\ ret.tau_AB = TauThirds


---------------------------------------------------------------------------
(* Floating point.  wrap01 (sympol2d/builder.py) and mod1 are compared for  *)
(* exact equality and exact range, so rounding matters.  The doubles of the *)
(* program are modelled as binary floating-point numbers of reduced width:  *)
(* a float is an integer count n of units 2^-FracBits (the smallest         *)
(* positive number) with at most MantBits significant bits; every           *)
(* arithmetic result is rounded to the nearest float, ties to even, as IEEE *)
(* 754 does with 53 significant bits.                                       *)

\* significant bits of a float
MantBits == 4

\* 2^-FracBits is the smallest positive float
FracBits == 6

\* the float 1.0
Unit == 2^FracBits

RECURSIVE BitLen(_)
BitLen(n) == IF n = 0 THEN 0 ELSE 1 + BitLen(n \div 2)

\* the float nearest to the real number n * 2^-FracBits (ties to even)
RoundFloat(n) ==
    LET a == Abs(n)
        len == BitLen(a)
    IN  IF len <= MantBits THEN n
        ELSE LET q == 2^(len - MantBits)
                 lo == a \div q
                 r == a % q
                 m == IF 2 * r > q \/ (2 * r = q /\ lo % 2 = 1)
                      THEN lo + 1 ELSE lo
             IN  IF n < 0 THEN -(m * q) ELSE m * q

\* np.floor (exact)
np_floor(x) == (x \div Unit) * Unit

\* np.ceil (exact)
np_ceil(x) == -(((-x) \div Unit) * Unit)

\* wrap01 with np.ceil in the place of np.floor
wrap01_ceil(x) == RoundFloat(x - np_ceil(x))

\* wrap01(x) = x - np.floor(x)
wrap01(x) == RoundFloat(x - np_floor(x))

\* C fmod(x, 1.0): remainder with the sign of x (exact)
fmod1(x) == IF x >= 0 THEN x % Unit ELSE -((-x) % Unit)

\* np.mod(x, 1.0) on one double: fmod, then + 1.0 when the remainder is
\* negative
mod1_float(x) ==
    LET m == fmod1(x)
    IN  IF m < 0 THEN RoundFloat(m + Unit) ELSE m

\* largest magnitude of the inputs, in units of 1.0
MaxMagnitude == 2

\* largest integer shift
MaxShift == 2

\* the floats of magnitude at most MaxMagnitude
FloatInputs ==
    {n \in (-(MaxMagnitude * Unit))..(MaxMagnitude * Unit) : RoundFloat(n) = n}

InitWrap ==
    /\ IdleSymmetry
    /\ call = {}
    /\ \E x \in FloatInputs, k \in (-MaxShift)..MaxShift : args = [x |-> x, k |-> k]
    /\ ret = << >>
    /\ database = << >>
    /\ files = {}

\* one call f(v), its result kept under the name of the call
Returns(name, value) ==
    /\ name \notin call
    /\ call' = call \cup {name}
    /\ ret' = ret @@ (name :> value)
    /\ UNCHANGED <<symmetry_vars, args, database, files>>

\* wrap01(x)
Wrap01 == Returns("wrap01(x)", wrap01(args.x))

\* wrap01(wrap01(x))
Wrap01Again ==
    /\ "wrap01(x)" \in call
    /\ Returns("wrap01(wrap01(x))", wrap01(ret["wrap01(x)"]))

\* wrap01(x + k)
Wrap01Shifted == Returns("wrap01(x+k)", wrap01(RoundFloat(args.x + args.k * Unit)))

\* mod1(x)
Mod1 == Returns("mod1(x)", mod1_float(args.x))

\* mod1(mod1(x))
Mod1Again ==
    /\ "mod1(x)" \in call
    /\ Returns("mod1(mod1(x))", mod1_float(ret["mod1(x)"]))

NextWrap == Wrap01 \/ Wrap01Again \/ Wrap01Shifted \/ Mod1 \/ Mod1Again

SpecWrap == InitWrap /\ [][NextWrap]_vars

\* C13: wrap01 and mod1 map every input into [0,1), are idempotent, agree
\* with each other, and wrap01(x + k) = wrap01(x) for every integer k.
C13_AsStated ==
    /\ Called("wrap01(x)") => (0 <= ret["wrap01(x)"] /\ ret["wrap01(x)"] < Unit)
    /\ Called("mod1(x)") => (0 <= ret["mod1(x)"] /\ ret["mod1(x)"] < Unit)
    /\ Called("wrap01(wrap01(x))") => ret["wrap01(wrap01(x))"] = ret["wrap01(x)"]
    /\ Called("mod1(mod1(x))") => ret["mod1(mod1(x))"] = ret["mod1(x)"]
    /\ (Called("wrap01(x)") /\ Called("mod1(x)")) => ret["wrap01(x)"] = ret["mod1(x)"]
    /\ (Called("wrap01(x)") /\ Called("wrap01(x+k)")) =>
          ret["wrap01(x+k)"] = ret["wrap01(x)"]


---------------------------------------------------------------------------
(* make_bilayer_poscar (sympol2d/builder.py) *)

\* decimals printed by the coordinate format (12 in the code)
FmtDigits == 1

\* atoms of the monolayer
MaxAtoms == 2

\* f"{x:.12f}": sign, and the decimal nearest to x (ties to even) counted in
\* units of the last printed digit
format_f(x) ==
    LET a == Abs(x) * 10^FmtDigits
        lo == a \div Unit
        r == a % Unit
        m == IF 2 * r > Unit \/ (2 * r = Unit /\ lo % 2 = 1) THEN lo + 1 ELSE lo
    IN  <<IF x < 0 THEN "-" ELSE "", m>>

format_row(v) == <<format_f(v[1]), format_f(v[2]), format_f(v[3])>>

make_bilayer_poscar(formula, lattice, frac_coords_mono, tau_, dz_frac, comment, top_first) ==
    LET bottom == frac_coords_mono
        top == [i \in 1..Len(frac_coords_mono) |->
                   <<wrap01(RoundFloat(frac_coords_mono[i][1] + tau_[1])),
                     wrap01(RoundFloat(frac_coords_mono[i][2] + tau_[2])),
                     wrap01(RoundFloat(frac_coords_mono[i][3] + dz_frac))>>]
        coords == IF top_first THEN top \o bottom ELSE bottom \o top
    IN  [comment |-> comment,
         scale |-> "1.0",
         lattice |-> [i \in 1..3 |-> format_row(lattice[i])],
         formula |-> formula,
         natoms |-> Len(coords),
         mode |-> "Direct",
         coords |-> [i \in 1..Len(coords) |-> format_row(coords[i])]]

\* monolayer rows (x, y, z), in floats: inside [0,1), at 1.25, just below 0,
\* and at -0.25
CoordRows ==
    {<<0, 0, Unit \div 2>>,
     <<Unit \div 4, (3 * Unit) \div 4, Unit \div 2>>,
     <<RoundFloat((5 * Unit) \div 16), RoundFloat((11 * Unit) \div 16), (5 * Unit) \div 8>>,
     <<(5 * Unit) \div 4, Unit \div 4, Unit \div 2>>,
     <<-2, Unit \div 4, Unit \div 2>>,
     <<-(Unit \div 4), 0, Unit \div 2>>}

CoordArrays == UNION {[1..n -> CoordRows] : n \in 1..MaxAtoms}

TauShifts == {<<0, 0>>, <<Unit \div 4, 0>>,
              <<RoundFloat(Unit \div 3), RoundFloat((2 * Unit) \div 3)>>}

HexLattice == <<<<3 * Unit, 0, 0>>, <<-(3 * Unit) \div 2, 2 * Unit, 0>>, <<0, 0, 24 * Unit>>>>

InitBuilder ==
    /\ IdleSymmetry
    /\ call = {}
    /\ \E coords \in CoordArrays, t \in TauShifts, dz \in {0, Unit \div 8},
          tf \in BOOLEAN :
          args = [formula |-> "BN", lattice |-> HexLattice,
                  frac_coords_mono |-> coords, tau |-> t, dz_frac |-> dz,
                  comment |-> "bilayer", top_first |-> tf]
    /\ ret = << >>
    /\ database = << >>
    /\ files = {}

MakeBilayerPoscar ==
    /\ call = {}
    /\ call' = {"make_bilayer_poscar"}
    /\ ret' = make_bilayer_poscar(args.formula, args.lattice, args.frac_coords_mono,
                                  args.tau, args.dz_frac, args.comment,
                                  args.top_first)
    /\ UNCHANGED <<symmetry_vars, args, database, files>>

NextBuilder == MakeBilayerPoscar

SpecBuilder == InitBuilder /\ [][NextBuilder]_vars

\* the coordinate list has 2N rows and its two blocks of N rows are equal
BlocksIdentical ==
    LET n == Len(args.frac_coords_mono)
    IN  /\ Len(ret.coords) = 2 * n
        /\ ret.natoms = 2 * n
        /\ \A i \in 1..n : ret.coords[i] = ret.coords[n + i]

ZeroShift == args.tau = <<0, 0>> /\ args.dz_frac = 0

CoordsInUnitCell ==
    \A i \in 1..Len(args.frac_coords_mono) : \A j \in 1..3 :
        0 <= args.frac_coords_mono[i][j] /\ args.frac_coords_mono[i][j] < Unit

---------------------------------------------------------------------------
(* estimate_interlayer_distance (sympol2d/utils.py); lengths in 0.01 A *)

VDW_RADII ==
    (1 :> 120) @@ (5 :> 192) @@ (6 :> 170) @@ (7 :> 155) @@ (8 :> 152) @@
    (9 :> 147) @@ (14 :> 210) @@ (15 :> 180) @@ (16 :> 180) @@ (17 :> 175) @@
    (34 :> 190) @@ (35 :> 185) @@ (42 :> 210) @@ (52 :> 206) @@ (53 :> 198) @@
    (74 :> 210)

\* the 3.1 that every branch returns
DefaultDistance == 310

\* the 6.5 that the comment in the code gives for TMDCs
TmdcDistance == 650

Max(a, b) == IF a >= b THEN a ELSE b

RECURSIVE max_vdw_radius(_, _)
\* the loop over unique_elements that raises max_radius
max_vdw_radius(unique_elements, max_radius) ==
    IF unique_elements = {} THEN max_radius
    ELSE LET z == CHOOSE e \in unique_elements : TRUE
         IN  max_vdw_radius(unique_elements \ {z},
                            IF z \in DOMAIN VDW_RADII
                            THEN Max(max_radius, VDW_RADII[z])
                            ELSE max_radius)

\* estimate_interlayer_distance with the TMDC branch returning the 6.5 A of
\* the comment
estimate_interlayer_distance_tmdc(atomic_numbers) ==
    LET unique_elements == Range(atomic_numbers)
    IN  IF \E z \in unique_elements : z > 40
        THEN IF \E z \in unique_elements : z \in {16, 34, 52}
             THEN TmdcDistance
             ELSE DefaultDistance
        ELSE DefaultDistance

estimate_interlayer_distance(atomic_numbers) ==
    LET unique_elements == Range(atomic_numbers)
        max_radius == max_vdw_radius(unique_elements, 170)
    IN  IF \E z \in unique_elements : z > 40
        THEN IF \E z \in unique_elements : z \in {16, 34, 52}
             THEN DefaultDistance
             ELSE DefaultDistance
        ELSE IF \E z \in unique_elements : z \in {16, 34, 52}
             THEN DefaultDistance
             ELSE DefaultDistance

\* length of the arrays of atomic numbers
MaxNumbers == 3

\* H, Li (no radius), B, N, S, Se, Zr (40), Nb (no radius), Mo, Te, W
AtomicNumberInputs == {1, 3, 5, 7, 16, 34, 40, 41, 42, 52, 74}

InitEstimate ==
    /\ IdleSymmetry
    /\ call = {}
    /\ \E n \in 0..MaxNumbers : \E numbers \in [1..n -> AtomicNumberInputs] :
          args = [atomic_numbers |-> numbers]
    /\ ret = << >>
    /\ database = << >>
    /\ files = {}

EstimateInterlayerDistance ==
    /\ call = {}
    /\ call' = {"estimate_interlayer_distance"}
    /\ ret' = [value |-> estimate_interlayer_distance(args.atomic_numbers)]
    /\ UNCHANGED <<symmetry_vars, args, database, files>>

NextEstimate == EstimateInterlayerDistance

SpecEstimate == InitEstimate /\ [][NextEstimate]_vars

\* C14: estimate_interlayer_distance returns exactly 3.1 for every array of
\* atomic numbers, whichever branch is taken.
C14_AlwaysThreePointOne ==
    Called("estimate_interlayer_distance") => ret.value = DefaultDistance

\* a transition metal with a chalcogen (MoS2): the innermost branch
C14_Witness ==
    /\ Called("estimate_interlayer_distance")
    /\ args.atomic_numbers = <<42, 16, 16>>
    /\ ret.value = DefaultDistance


---------------------------------------------------------------------------
(* load_poscar (sympol2d/poscar_io.py).  A file is a sequence of lines, a   *)
(* line a sequence of whitespace-separated fields (empty: a blank line), a  *)
(* field either a word or a numeric literal.                                *)

Word(w) == [word |-> w]

IntLit(v) == [num |-> v, lit |-> "int"]

FloatLit(v) == [num |-> v, lit |-> "float"]

IsNum(field) == "num" \in DOMAIN field

\* first character of the words that occur, lower-cased
FirstLower ==
    ("Direct" :> "d") @@ ("direct" :> "d") @@ ("D" :> "d") @@
    ("Selective" :> "s") @@ ("selective" :> "s") @@ ("S" :> "s") @@
    ("Cartesian" :> "c") @@ ("cartesian" :> "c") @@ ("K" :> "k") @@
    ("dynamics" :> "d") @@ ("bilayer" :> "b") @@ ("B" :> "b") @@ ("N" :> "n") @@
    ("T" :> "t") @@ ("F" :> "f")

\* line.lower()[0:1] of a non-blank line; a numeric literal starts with a
\* digit or a sign
first_char(line) ==
    IF IsNum(line[1]) THEN "0" ELSE FirstLower[line[1].word]

\* float(x) succeeds on every field of the sequence
all_float(fields) == \A i \in 1..Len(fields) : IsNum(fields[i])

\* int(x) succeeds on every field of the sequence
all_int(fields) ==
    \A i \in 1..Len(fields) : IsNum(fields[i]) /\ fields[i].lit = "int"

RECURSIVE sum(_)
sum(cnt_line) ==
    IF cnt_line = << >> THEN 0 ELSE cnt_line[1] + sum(Tail(cnt_line))

\* line.split()[:3]
first3(line) == SubSeq(line, 1, Min(3, Len(line)))

Raise(exc) == [raised |-> exc]

\* mode_idx without the selective-dynamics branch
poscar_mode_idx_fixed(lines) == 7

\* index (0-based) of the coordinate-mode line: 7, or 8 when line 7 starts
\* with "s" (selective dynamics)
poscar_mode_idx(lines) == IF first_char(lines[8]) = "s" THEN 8 ELSE 7

load_poscar(raw_lines) ==
    LET lines == SelectSeq(raw_lines, LAMBDA l : l # << >>)
        L(i) == lines[i + 1]                 \* lines[i], 0-based as in the code
        have(i) == Len(lines) > i
    IN  IF ~have(0) THEN Raise("IndexError")
        ELSE IF ~have(1) THEN Raise("IndexError")
        ELSE IF ~(Len(L(1)) = 1 /\ IsNum(L(1)[1])) THEN Raise("ValueError")
        ELSE IF ~have(4) THEN Raise("IndexError")
        ELSE IF \E i \in 2..4 : ~all_float(L(i)) THEN Raise("ValueError")
        ELSE IF \E i \in 2..4 : Len(L(i)) # Len(L(2)) THEN Raise("ValueError")
        ELSE IF ~have(5) THEN Raise("IndexError")
        ELSE IF ~have(6) THEN Raise("IndexError")
        ELSE IF ~all_int(L(6)) THEN Raise("ValueError")
        ELSE IF ~have(7) THEN Raise("IndexError")
        ELSE
        LET scale == L(1)[1].num
            cnt_line == [i \in 1..Len(L(6)) |-> L(6)[i].num]
            n == sum(cnt_line)
            mode_idx == poscar_mode_idx(lines)
            start == mode_idx + 1
        IN  IF ~have(mode_idx) THEN Raise("IndexError")
            ELSE IF first_char(L(mode_idx)) # "d" THEN Raise("ValueError")
            ELSE IF \E i \in 0..(n - 1) : ~have(start + i) THEN Raise("IndexError")
            ELSE IF \E i \in 0..(n - 1) : ~all_float(first3(L(start + i)))
                 THEN Raise("ValueError")
            ELSE IF \E i \in 0..(n - 1) :
                        Len(first3(L(start + i))) # Len(first3(L(start)))
                 THEN Raise("ValueError")
            ELSE [raised |-> "None",
                  comment |-> L(0),
                  lattice |-> [i \in 1..3 |->
                                 [j \in 1..Len(L(i + 1)) |-> L(i + 1)[j].num * scale]],
                  symbols |-> L(5),
                  counts |-> cnt_line,
                  coords |-> [i \in 1..n |->
                                [j \in 1..Len(first3(L(start + i - 1))) |->
                                    first3(L(start + i - 1))[j].num]],
                  formula |-> [i \in 1..Min(Len(L(5)), Len(cnt_line)) |->
                                 IF cnt_line[i] > 1
                                 THEN <<L(5)[i].word, cnt_line[i]>>
                                 ELSE <<L(5)[i].word>>]]

\* lines 0..5 of a VASP5 file: comment, scale, lattice, symbols
HeaderLines ==
    <<<<Word("bilayer")>>, <<FloatLit(1)>>,
      <<FloatLit(3), FloatLit(0), FloatLit(0)>>,
      <<FloatLit(-1), FloatLit(2), FloatLit(0)>>,
      <<FloatLit(0), FloatLit(0), FloatLit(24)>>,
      <<Word("B"), Word("N")>>>>

\* the per-element counts line
CountLines == {<<IntLit(1)>>, <<IntLit(1), IntLit(1)>>, <<IntLit(2), IntLit(1)>>}

\* what follows the counts: a mode line, a selective-dynamics flag and a
\* mode line, a flag alone, or nothing (the coordinates follow directly)
ModeBlocks ==
    {<<<<Word(m)>>>> : m \in {"Direct", "direct", "D", "Cartesian", "cartesian", "K"}}
    \cup {<<<<Word("Selective"), Word("dynamics")>>, <<Word(m)>>>> :
             m \in {"Direct", "D", "Cartesian", "selective"}}
    \cup {<<<<Word("S")>>, <<Word("direct")>>>>, <<<<Word("S")>>>>, << >>}

\* coordinate lines: three numbers, three numbers and flags, two numbers
CoordLines ==
    {<<FloatLit(0), FloatLit(0), FloatLit(32)>>,
     <<FloatLit(16), FloatLit(48), FloatLit(32), Word("T"), Word("T"), Word("F")>>,
     <<FloatLit(16), FloatLit(48)>>}

\* number of lines after the mode line
MaxCoordLines == 3

PoscarFiles ==
    {HeaderLines \o <<c>> \o blank \o m \o rows :
        c \in CountLines,
        blank \in {<< >>, <<<< >>>>},
        m \in ModeBlocks,
        rows \in UNION {[1..k -> CoordLines] : k \in 0..MaxCoordLines}}

InitPoscar ==
    /\ IdleSymmetry
    /\ call = {}
    /\ \E raw_lines \in PoscarFiles : args = [lines |-> raw_lines]
    /\ ret = << >>
    /\ database = << >>
    /\ files = {}

LoadPoscar ==
    /\ call = {}
    /\ call' = {"load_poscar"}
    /\ ret' = load_poscar(args.lines)
    /\ UNCHANGED <<symmetry_vars, args, database, files>>

NextPoscar == LoadPoscar

SpecPoscar == InitPoscar /\ [][NextPoscar]_vars

\* the file as the claim reads it: non-blank lines, line 7 (0-based) or,
\* when that is a selective-dynamics flag, line 8 is the coordinate-mode line
FileLines == SelectSeq(args.lines, LAMBDA l : l # << >>)

ModeLineIndex ==
    IF Len(FileLines) >= 8 /\ first_char(FileLines[8]) = "s" THEN 9 ELSE 8

HasModeLine == Len(FileLines) >= ModeLineIndex

ModeIsDirect == HasModeLine /\ first_char(FileLines[ModeLineIndex]) = "d"

DeclaredAtoms == sum([i \in 1..Len(FileLines[7]) |-> FileLines[7][i].num])

ReturnsRowsAfterModeLine ==
    /\ ret.raised = "None"
    /\ Len(ret.coords) = DeclaredAtoms
    /\ \A i \in 1..DeclaredAtoms :
          /\ Len(FileLines) >= ModeLineIndex + i
          /\ \A j \in 1..Len(ret.coords[i]) :
                ret.coords[i][j] = FileLines[ModeLineIndex + i][j].num

\* C15 as stated: load_poscar fails with a ValueError and returns no data
\* whenever the coordinate-mode line does not begin with 'd'/'D'; when it
\* does, it returns exactly N = sum of the counts coordinate rows, read from
\* the lines immediately after the mode line.
C15_AsStated ==
    Called("load_poscar") =>
        /\ (HasModeLine /\ ~ModeIsDirect) => ret = Raise("ValueError")
        /\ ModeIsDirect => ReturnsRowsAfterModeLine

\* the N lines after the mode line exist and start with three (or all with
\* fewer, equally many) numeric fields
CoordinateBlockComplete ==
    /\ Len(FileLines) >= ModeLineIndex + DeclaredAtoms
    /\ \A i \in 1..DeclaredAtoms :
          /\ all_float(first3(FileLines[ModeLineIndex + i]))
          /\ Len(first3(FileLines[ModeLineIndex + i]))
                = Len(first3(FileLines[ModeLineIndex + 1]))

\* C15, amended: load_poscar fails with a ValueError and returns no data
\* whenever the coordinate-mode line does not begin with 'd'/'D'; when it
\* does and the N = sum of the counts lines after it are present with equally
\* many leading numeric fields, it returns exactly those N coordinate rows.
C15_DirectOnlyAndCompleteBlock ==
    Called("load_poscar") =>
        /\ (HasModeLine /\ ~ModeIsDirect) => ret = Raise("ValueError")
        /\ (ModeIsDirect /\ CoordinateBlockComplete) => ReturnsRowsAfterModeLine

\* a Cartesian file behind a selective-dynamics flag is refused
C15_Witness ==
    /\ Called("load_poscar")
    /\ HasModeLine
    /\ ModeLineIndex = 9
    /\ FileLines[9] = <<Word("Cartesian")>>
    /\ DeclaredAtoms = 3
    /\ Len(FileLines) = 12
    /\ ret = Raise("ValueError")


---------------------------------------------------------------------------
(* Claims about an unknown layer group (Spec) *)

---------------------------------------------------------------------------
(* C2DBInterface (sympol2d/c2db_interface.py).  The database is the SQLite  *)
(* file with the tables systems and text_key_values; a row of               *)
(* text_key_values is [id, key, value].  A uid or a formula is a sequence   *)
(* of characters, a layer-group value a string.  Rows come out of a query   *)
(* in table order.                                                          *)

\* SQL NULL / Python None
None == "None"

\* None where a sequence of characters is expected
NoText == <<"None">>

\* ASCII lower case of the letters that occur
LowerChar ==
    ("M" :> "m") @@ ("S" :> "s") @@ ("W" :> "w") @@ ("P" :> "p") @@ ("X" :> "x")

Fold(c) == IF c \in DOMAIN LowerChar THEN LowerChar[c] ELSE c

Digits == {"0", "1", "2", "3", "4", "5", "6", "7", "8", "9"}

RECURSIVE like(_, _)
\* the SQLite operator  str LIKE pattern : % matches any sequence, _ any one
\* character, other characters match without regard to ASCII case
like(pattern, str) ==
    IF pattern = << >> THEN str = << >>
    ELSE IF Head(pattern) = "%"
         THEN \E k \in 0..Len(str) : like(Tail(pattern), SubSeq(str, k + 1, Len(str)))
         ELSE /\ str # << >>
              /\ (Head(pattern) = "_" \/ Fold(Head(pattern)) = Fold(Head(str)))
              /\ like(Tail(pattern), Tail(str))

\* LIMIT that lets one row more through
sql_limit_one_more(rows, limit) ==
    IF limit < 0 THEN rows ELSE SubSeq(rows, 1, Min(limit + 1, Len(rows)))

\* LIMIT ? : a negative limit is no limit
sql_limit(rows, limit) ==
    IF limit < 0 THEN rows ELSE SubSeq(rows, 1, Min(limit, Len(rows)))

\* SELECT DISTINCT: first occurrences, in order
sql_distinct(rows) ==
    LET keep(i) == \A j \in 1..(i - 1) : rows[j] # rows[i]
        F[i \in 0..Len(rows)] ==
            IF i = 0 THEN << >>
            ELSE IF keep(i) THEN Append(F[i - 1], rows[i]) ELSE F[i - 1]
    IN  F[Len(rows)]

\* the rows of text_key_values with the given key
rows_with_key(t, key) == SelectSeq(t, LAMBDA r : r.key = key)

\* value of the first row with this id and key, None when there is none
value_of(t, id, key) ==
    LET hits == SelectSeq(t, LAMBDA r : r.id = id /\ r.key = key)
    IN  IF hits = << >> THEN None ELSE hits[1].value

RECURSIVE flatten(_)
flatten(seqs) == IF seqs = << >> THEN << >> ELSE Head(seqs) \o flatten(Tail(seqs))

\* t1 JOIN t2 ON t1.id = t2.id, restricted to t1.key = 'uid' and
\* t2.key = 'layergroup': the pairs (t1.value, t2.value)
uid_layergroup_join(t) ==
    LET t1 == rows_with_key(t, "uid")
        t2 == rows_with_key(t, "layergroup")
    IN  flatten([i \in 1..Len(t1) |->
                   LET m == SelectSeq(t2, LAMBDA r : r.id = t1[i].id)
                   IN  [j \in 1..Len(m) |-> <<t1[i].value, m[j].value>>]])

\* the formula taken from a uid: the part before the first '-', without a
\* leading digit
formula_from_uid(uid) ==
    IF \E i \in 1..Len(uid) : uid[i] = "-"
    THEN LET cut == CHOOSE i \in 1..Len(uid) :
                       uid[i] = "-" /\ \A j \in 1..(i - 1) : uid[j] # "-"
             part == SubSeq(uid, 1, cut - 1)
         IN  IF Len(part) > 0 /\ part[1] \in Digits THEN Tail(part) ELSE part
    ELSE uid

\* C2DBInterface.search_materials; formula and layer_group may be None
search_materials(t, formula, layer_group_, limit) ==
    LET has_formula == formula # NoText /\ formula # << >>
        has_group == layer_group_ # None /\ layer_group_ # ""
        pattern == <<"%">> \o formula \o <<"%">>
        t1 == rows_with_key(t, "uid")
        selected ==
            IF ~has_formula /\ ~has_group THEN uid_layergroup_join(t)
            ELSE IF has_formula /\ has_group
                 THEN SelectSeq(uid_layergroup_join(t),
                                LAMBDA row : like(pattern, row[1])
                                             /\ row[2] = layer_group_)
            ELSE IF has_formula
                 THEN LET hits == SelectSeq(t1, LAMBDA r : like(pattern, r.value))
                      IN  [i \in 1..Len(hits) |->
                             <<hits[i].value,
                               value_of(t, hits[i].id, "layergroup")>>]
            ELSE SelectSeq(uid_layergroup_join(t),
                           LAMBDA row : row[2] = layer_group_)
        fetched == sql_limit(sql_distinct(selected), limit)
    IN  [i \in 1..Len(fetched) |->
           [uid |-> fetched[i][1],
            formula |-> formula_from_uid(fetched[i][1]),
            layer_group |-> IF fetched[i][2] = None THEN "Unknown"
                            ELSE fetched[i][2]]]

\* the records of the database: uid, layer group (None: no layergroup row)
\* and atomic numbers
MaterialPool ==
    <<[uid |-> <<"M", "o", "S", "2", "-", "1">>, layergroup |-> "p-6m2",
       numbers |-> <<42, 16, 16>>],
      [uid |-> <<"M", "o", "S", "2", "-", "2">>, layergroup |-> "p-3m1",
       numbers |-> <<42, 16, 16>>],
      [uid |-> <<"W", "S", "2", "-", "1">>, layergroup |-> "p-6m2",
       numbers |-> <<74, 16, 16>>],
      [uid |-> <<"4", "P", "-", "1">>, layergroup |-> None,
       numbers |-> <<15, 15, 15, 15>>]>>

\* the tables of a database that holds the records ids of the pool
tables_of(ids) ==
    LET order == SelectSeq(<<1, 2, 3, 4>>, LAMBDA i : i \in ids)
    IN  [systems |-> [k \in 1..Len(order) |->
                        [id |-> order[k], numbers |-> MaterialPool[order[k]].numbers]],
         text_key_values |->
            flatten([k \in 1..Len(order) |->
                <<[id |-> order[k], key |-> "uid",
                   value |-> MaterialPool[order[k]].uid]>>
                \o (IF MaterialPool[order[k]].layergroup = None THEN << >>
                    ELSE <<[id |-> order[k], key |-> "layergroup",
                            value |-> MaterialPool[order[k]].layergroup]>>)])]

Databases == {[file |-> "sqlite"] @@ tables_of(ids) : ids \in SUBSET (1..4)}

\* formula filters: none, empty, exact, other case, part, with the
\* wildcard _, and one that matches nothing
FormulaInputs ==
    {NoText, << >>, <<"M", "o", "S", "2">>, <<"m", "o", "s", "2">>, <<"S", "2">>,
     <<"M", "o", "_", "2">>, <<"P">>, <<"X", "e">>}

GroupFilterInputs == {None, "p-6m2", "p1"}

\* largest limit
MaxLimit == 3

InitSearch ==
    /\ IdleSymmetry
    /\ call = {}
    /\ database \in Databases
    /\ \E f \in FormulaInputs, lg \in GroupFilterInputs, n \in 0..MaxLimit :
          args = [formula |-> f, layer_group |-> lg, limit |-> n]
    /\ ret = << >>
    /\ files = {}

SearchMaterials ==
    /\ call = {}
    /\ call' = {"search_materials"}
    /\ ret' = search_materials(database.text_key_values, args.formula,
                               args.layer_group, args.limit)
    /\ UNCHANGED <<symmetry_vars, args, database, files>>

NextSearch == SearchMaterials

SpecSearch == InitSearch /\ [][NextSearch]_vars

\* sub is a substring of str
contains(str, sub) ==
    \E k \in 0..(Len(str) - Len(sub)) : SubSeq(str, k + 1, k + Len(sub)) = sub

\* sub is a substring of str when ASCII case is ignored
contains_fold(str, sub) ==
    contains([i \in 1..Len(str) |-> Fold(str[i])], [i \in 1..Len(sub) |-> Fold(sub[i])])

FormulaGiven == args.formula # NoText /\ args.formula # << >>

\* C17 as stated: search_materials returns at most limit records for every
\* combination of filters, and with a formula filter every returned uid
\* contains the filter string as a substring.
C17_AsStated ==
    Called("search_materials") =>
        /\ Len(ret) <= args.limit
        /\ FormulaGiven => \A i \in 1..Len(ret) : contains(ret[i].uid, args.formula)

NoWildcard == \A i \in 1..Len(args.formula) : args.formula[i] \notin {"%", "_"}

\* C17, amended: for a limit >= 0, search_materials returns at most limit
\* records for every combination of filters; with a formula filter that has
\* no wildcard character (%, _), every returned uid contains the filter
\* string as a substring when ASCII case is ignored.
C17_LimitAndSubstringIgnoringCase ==
    Called("search_materials") =>
        /\ args.limit >= 0 => Len(ret) <= args.limit
        /\ (FormulaGiven /\ NoWildcard) =>
              \A i \in 1..Len(ret) : contains_fold(ret[i].uid, args.formula)

\* three records match the part "S2", the limit 2 cuts them to two
C17_Witness ==
    /\ Called("search_materials")
    /\ Len(database.systems) = 4
    /\ args = [formula |-> <<"S", "2">>, layer_group |-> None, limit |-> 2]
    /\ Len(ret) = 2
    /\ ret[2].uid = <<"M", "o", "S", "2", "-", "2">>
    /\ ret[2].formula = <<"M", "o", "S", "2">>


---------------------------------------------------------------------------
(* Command line (sympol2d/cli.py): search_material and list_materials.      *)
(* database.file tells what is at the --database path:                      *)
(*   "missing"         nothing;                                             *)
(*   "unopenable"      something sqlite3.connect cannot open (a directory); *)
(*   "not_a_database"  a file that is no SQLite database: connecting        *)
(*                     succeeds, the first query raises DatabaseError;      *)
(*   "no_tables"       an SQLite database without the two tables: the       *)
(*                     first query raises OperationalError;                 *)
(*   "sqlite"          a database with the tables.                          *)
(* database.opened tells whether a connection has been opened.              *)

\* Path(args.database).exists() answering True for every path
path_exists_always(db) == TRUE

\* Path(args.database).exists()
path_exists(db) == db.file # "missing"

\* sqlite3.connect(db_path) in C2DBInterface.__init__: raises on a path that
\* cannot be opened, creates an empty database at a path that does not exist
connect(db) ==
    IF db.file = "unopenable"
    THEN [raised |-> "sqlite3.OperationalError", db |-> db]
    ELSE [raised |-> "None",
          db |-> [db EXCEPT !.opened = TRUE,
                            !.file = IF db.file = "missing" THEN "no_tables"
                                     ELSE db.file]]

\* what cursor.execute raises on the first query
query_error(db) ==
    CASE db.file = "not_a_database" -> "sqlite3.DatabaseError"
      [] db.file = "no_tables" -> "sqlite3.OperationalError"
      [] OTHER -> "None"

\* bool(s) of an optional string argument
truthy(text) == text # NoText /\ text # << >>

\* C2DBInterface.get_material_by_uid: found is FALSE for None
get_material_by_uid(db, uid) ==
    LET hits == SelectSeq(db.text_key_values,
                          LAMBDA r : /\ r.key = "uid"
                                     /\ r.value = uid
                                     /\ \E k \in 1..Len(db.systems) :
                                           db.systems[k].id = r.id)
    IN  IF hits = << >> THEN [found |-> FALSE]
        ELSE LET id == hits[1].id
                 sys == db.systems[CHOOSE k \in 1..Len(db.systems) :
                                       db.systems[k].id = id]
                 lg == value_of(db.text_key_values, id, "layergroup")
             IN  [found |-> TRUE,
                  uid |-> uid,
                  formula |-> formula_from_uid(uid),
                  layer_group |-> IF lg = None THEN "p1" ELSE lg,
                  numbers |-> sys.numbers,
                  natoms |-> Len(sys.numbers)]

\* material resolution that takes the first match whether or not
\* --auto-select is given
resolve_material_first_match(db, a) ==
    IF truthy(a.uid)
    THEN get_material_by_uid(db, a.uid)
    ELSE IF truthy(a.formula)
    THEN LET found == search_materials(db.text_key_values, a.formula, None, 10)
         IN  IF found = << >> THEN [found |-> FALSE]
             ELSE get_material_by_uid(db, found[1].uid)
    ELSE [found |-> FALSE]

\* search_material, "Get material": the material, or found = FALSE where the
\* code returns 1
resolve_material(db, a) ==
    IF truthy(a.uid)
    THEN get_material_by_uid(db, a.uid)
    ELSE IF truthy(a.formula)
    THEN LET found == search_materials(db.text_key_values, a.formula, None, 10)
         IN  IF found = << >> THEN [found |-> FALSE]
             ELSE IF Len(found) > 1 /\ ~a.auto_select THEN [found |-> FALSE]
             ELSE get_material_by_uid(db, found[1].uid)
    ELSE [found |-> FALSE]

\* the files save_all_stackings_cif writes: output_dir/<formula>_<name>.cif
\* for every name of the representatives
save_all_stackings_cif(material, reps, output_dir) ==
    {[path |-> output_dir, formula |-> material.formula, name |-> key] :
        key \in DOMAIN reps}

\* the files search_material writes for its representatives
written_files(a, material, reps) ==
    IF a.output.given
    THEN IF a.output_format = "json" \/ a.output.suffix = ".json"
         THEN {[path |-> a.output.stem, formula |-> << >>, name |-> <<".json">>]}
         ELSE save_all_stackings_cif(material, reps, a.output.stem)
    ELSE IF DOMAIN reps # {}
         THEN save_all_stackings_cif(material, reps,
                                     material.formula \o <<"_stackings">>)
         ELSE {}

\* outcome of a run that ends before any material is analysed
Ends(exc, status_, db) ==
    [raised |-> exc, status |-> status_, db |-> db, scanned |-> FALSE,
     material |-> [found |-> FALSE], reps |-> << >>, written |-> {}]

\* search_material(args): exception that escapes (or "None") and return
\* value, the database afterwards, the material analysed, the
\* representatives scanned and the files written
search_material(db, a) ==
    IF ~path_exists(db) THEN Ends("None", 1, db)
    ELSE LET conn == connect(db)
    IN  IF conn.raised # "None" THEN Ends("None", 1, db)
        ELSE IF (truthy(a.uid) \/ truthy(a.formula)) /\ query_error(conn.db) # "None"
        THEN Ends(query_error(conn.db), -1, conn.db)
        ELSE LET material == resolve_material(conn.db, a)
    IN  IF ~material.found THEN Ends("None", 1, conn.db)
        ELSE LET interlayer_d ==
                     IF a.interlayer_distance = None
                     THEN estimate_interlayer_distance(material.numbers)
                     ELSE a.interlayer_distance
                 reps == get_representative_stackings(
                             generate_operations(Lower(material.layer_group)),
                             a.grid)
    IN  IF DOMAIN reps = {}
        THEN [Ends("None", 1, conn.db) EXCEPT !.scanned = TRUE, !.material = material]
        ELSE [raised |-> "None", status |-> 0, db |-> conn.db, scanned |-> TRUE,
              material |-> material, reps |-> reps,
              written |-> written_files(a, material, reps)]

RECURSIVE sort_by_count(_)
\* ORDER BY count DESC
sort_by_count(groups) ==
    IF groups = << >> THEN << >>
    ELSE LET top == CHOOSE i \in 1..Len(groups) :
                       /\ \A j \in 1..Len(groups) : groups[j][2] <= groups[i][2]
                       /\ \A j \in 1..(i - 1) : groups[j][2] < groups[i][2]
         IN  <<groups[top]>> \o
             sort_by_count(SubSeq(groups, 1, top - 1) \o
                           SubSeq(groups, top + 1, Len(groups)))

\* C2DBInterface.get_all_layer_groups
get_all_layer_groups(t) ==
    LET rows == rows_with_key(t, "layergroup")
        values == sql_distinct([i \in 1..Len(rows) |-> rows[i].value])
    IN  sort_by_count([i \in 1..Len(values) |->
                         <<values[i],
                           Len(SelectSeq(rows, LAMBDA r : r.value = values[i]))>>])

\* list_materials(args): exception that escapes (or "None") and return value,
\* the database afterwards, and the rows printed
list_materials(db, a) ==
    IF ~path_exists(db) THEN Ends("None", 1, db)
    ELSE LET conn == connect(db)
    IN  IF conn.raised # "None" THEN Ends("None", 1, db)
        ELSE IF query_error(conn.db) # "None"
        THEN Ends(query_error(conn.db), -1, conn.db)
        ELSE IF a.layer_groups
        THEN [Ends("None", 0, conn.db) EXCEPT
                 !.reps = SubSeq(get_all_layer_groups(conn.db.text_key_values), 1,
                                 Min(20, Len(get_all_layer_groups(conn.db.text_key_values))))]
        ELSE [Ends("None", 0, conn.db) EXCEPT
                 !.reps = search_materials(conn.db.text_key_values, a.formula,
                                           a.layer_group, a.limit)]

\* what can be at the --database path
CliDatabases ==
    {[file |-> f, opened |-> FALSE, systems |-> << >>, text_key_values |-> << >>] :
        f \in {"missing", "unopenable", "not_a_database", "no_tables"}}
    \cup {[file |-> "sqlite", opened |-> FALSE] @@ tables_of(ids) :
             ids \in {{}, {1}, {1, 2, 3, 4}, {3, 4}}}

\* largest --grid of the command-line runs
MaxCliGrid == 3

NoOutput == [given |-> FALSE, stem |-> << >>, suffix |-> ""]

\* --output: absent, results.json, out, out.cif
OutputInputs ==
    {NoOutput,
     [given |-> TRUE, stem |-> <<"results">>, suffix |-> ".json"],
     [given |-> TRUE, stem |-> <<"out">>, suffix |-> ""],
     [given |-> TRUE, stem |-> <<"out">>, suffix |-> ".cif"]}

\* --uid: absent, two uids of the pool, one that no database holds
UidInputs ==
    {NoText, <<"M", "o", "S", "2", "-", "1">>, <<"4", "P", "-", "1">>,
     <<"X", "e", "-", "1">>}

\* --formula of the search command
SearchFormulaInputs ==
    {NoText, <<"M", "o", "S", "2">>, <<"W", "S", "2">>, <<"X", "e">>}

SearchArgs ==
    [command : {"search"}, uid : UidInputs, formula : SearchFormulaInputs,
     auto_select : BOOLEAN, grid : {1, MaxCliGrid}, output : OutputInputs,
     output_format : {"cif", "json"}, polar_direction : {"all"},
     interlayer_distance : {None}]

ListArgs ==
    [command : {"list"}, formula : {NoText, <<"S", "2">>},
     layer_group : {None, "p-6m2"}, layer_groups : BOOLEAN, limit : {0, 20}]

InitCli ==
    /\ IdleSymmetry
    /\ call = {}
    /\ database \in CliDatabases
    /\ args \in SearchArgs \cup ListArgs
    /\ ret = << >>
    /\ files = {}

\* main() with the command "search".  The scanner that search_material
\* builds and scans is kept in layer_group, operations, grid_size and
\* representatives.
SearchMaterial ==
    /\ call = {}
    /\ args.command = "search"
    /\ \E out \in {search_material(database, args)} :
           /\ ret' = [raised |-> out.raised, status |-> out.status,
                      material |-> IF out.material.found THEN out.material.uid
                                   ELSE NoText]
           /\ database' = out.db
           /\ files' = files \cup out.written
           /\ call' = IF out.scanned
                      THEN {"search_material", "get_representative_stackings"}
                      ELSE {"search_material"}
           /\ IF out.scanned
              THEN /\ layer_group' = Lower(out.material.layer_group)
                   /\ operations' = generate_operations(Lower(out.material.layer_group))
                   /\ grid_size' = args.grid
                   /\ representatives' = out.reps
              ELSE UNCHANGED <<layer_group, operations, grid_size, representatives>>
    /\ UNCHANGED <<tau, preserved, stacking_type, polar_direction, results,
                   pairs, sign_flip, args>>

\* main() with the command "list"
ListMaterials ==
    /\ call = {}
    /\ args.command = "list"
    /\ \E out \in {list_materials(database, args)} :
           /\ ret' = [raised |-> out.raised, status |-> out.status,
                      material |-> NoText]
           /\ database' = out.db
    /\ call' = {"list_materials"}
    /\ UNCHANGED <<symmetry_vars, args, files>>

NextCli == SearchMaterial \/ ListMaterials

SpecCli == InitCli /\ [][NextCli]_vars

\* C18: when nothing is at the database path, the search and the list
\* command both return 1, without an exception, leaving the path as it was
\* (no connection opened, no file created), without a scan and without
\* writing a file.
C18_MissingDatabaseReturnsOne ==
    [][database.file = "missing" =>
          /\ ret'.raised = "None"
          /\ ret'.status = 1
          /\ database' = database
          /\ files' = {}
          /\ "get_representative_stackings" \notin call'
          /\ UNCHANGED symmetry_vars]_vars

C18_Witness ==
    /\ Called("search_material")
    /\ database.file = "missing"
    /\ ~database.opened
    /\ ret.status = 1
    /\ files = {}

\* what is at the path exists but is no usable database
Unusable == {"unopenable", "not_a_database", "no_tables"}

\* C19: when what is at the database path exists but is no usable database,
\* the search and the list command return a non-zero status and no exception
\* escapes them, whether connecting fails or the first query does.
C19_AsStated ==
    (call # {} /\ database.file \in Unusable) =>
        /\ ret.raised = "None"
        /\ ret.status # 0

\* uids of the database whose text contains the formula, in table order
uids_matching(db, formula) ==
    LET rows == rows_with_key(db.text_key_values, "uid")
        hits == SelectSeq(rows, LAMBDA r : contains_fold(r.value, formula))
    IN  [i \in 1..Len(hits) |-> hits[i].value]

\* the database holds a record with this uid
uid_known(db, uid) ==
    \E i \in 1..Len(db.text_key_values) :
        /\ db.text_key_values[i].key = "uid"
        /\ db.text_key_values[i].value = uid

\* the four ways material resolution fails: --uid names no record; --formula
\* matches none; --formula matches several and --auto-select is absent;
\* neither is given
ResolutionFails ==
    IF args.uid # NoText THEN ~uid_known(database, args.uid)
    ELSE IF args.formula # NoText
    THEN \/ uids_matching(database, args.formula) = << >>
         \/ Len(uids_matching(database, args.formula)) > 1 /\ ~args.auto_select
    ELSE TRUE

\* several records match the formula and --auto-select is given
AutoSelected ==
    /\ args.uid = NoText
    /\ args.formula # NoText
    /\ args.auto_select
    /\ Len(uids_matching(database, args.formula)) > 1

\* C20: on a usable database, when material resolution fails the search
\* command returns 1 without a scan and without writing a file; with
\* --auto-select and several matches it analyses the first match.
C20_ResolutionFailureReturnsOne ==
    (Called("search_material") /\ database.file = "sqlite") =>
        /\ ResolutionFails =>
              /\ ret.raised = "None"
              /\ ret.status = 1
              /\ "get_representative_stackings" \notin call
              /\ files = {}
        /\ AutoSelected =>
              /\ ret.raised = "None"
              /\ ret.status = 0
              /\ ret.material = uids_matching(database, args.formula)[1]
              /\ "get_representative_stackings" \in call

C20_Witness ==
    /\ Called("search_material")
    /\ database.file = "sqlite"
    /\ AutoSelected
    /\ args.formula = <<"M", "o", "S", "2">>
    /\ ret.material = <<"M", "o", "S", "2", "-", "1">>
    /\ ret.status = 0
    /\ "get_representative_stackings" \in call

\* the files written are one JSON document at a path ending in .json
JsonOnly == \E f \in files : files = {f} /\ f.name = <<".json">>

\* some CIF file has been written
CifWritten == \E f \in files : f.name # <<".json">>

\* C21: a search that ends with status 0 and --output-format json leaves
\* one JSON document (path ending in .json) and no CIF file, with or without
\* --output; CIF files are written only with the format cif.
C21_AsStated ==
    (Called("search_material") /\ ret.raised = "None" /\ ret.status = 0) =>
        /\ args.output_format = "json" => JsonOnly
        /\ CifWritten => args.output_format = "cif"

---------------------------------------------------------------------------
(* fetch_by_uid (sympol2d/c2db_interface.py), the standalone helper.        *)
(* database.connection tells what became of the connection the call        *)
(* opened: "none" (never opened), "open", "closed".                        *)

\* the formula fetch_by_uid derives from a uid: the part before the first
\* '-', with a leading count moved behind the element ('4P' -> 'P4')
fetch_formula(uid) ==
    LET part == IF \E i \in 1..Len(uid) : uid[i] = "-"
                THEN SubSeq(uid, 1, (CHOOSE i \in 1..Len(uid) :
                        uid[i] = "-" /\ \A j \in 1..(i - 1) : uid[j] # "-") - 1)
                ELSE uid
        i == Cardinality({k \in 1..Len(part) :
                             \A j \in 1..k : part[j] \in Digits})
    IN  IF part # << >> /\ part[1] \in Digits /\ i < Len(part)
        THEN SubSeq(part, i + 1, Len(part)) \o SubSeq(part, 1, i)
        ELSE part

\* what becomes of a connection that goes out of scope without close():
\* it is closed when the interpreter finalizes the object, at once under
\* reference counting, at some later time otherwise
unclosed_connection == {"open", "closed"}

\* fetch_by_uid(uid, dbpath): the possible outcomes, each the value returned
\* (found = FALSE for None) and the database afterwards
fetch_by_uid(uid, db) ==
    IF db.file = "missing"
    THEN {[result |-> [found |-> FALSE], db |-> db]}
    ELSE LET conn == connect(db)
         IN  IF conn.raised # "None"
             THEN {[result |-> [found |-> FALSE], db |-> db]}
             ELSE IF query_error(conn.db) # "None"
             THEN {[result |-> [found |-> FALSE],
                    db |-> [conn.db EXCEPT !.connection = c]] :
                      c \in unclosed_connection}
             ELSE LET hits == SelectSeq(conn.db.text_key_values,
                                  LAMBDA r : r.key = "uid" /\ r.value = uid)
                      lg == value_of(conn.db.text_key_values, hits[1].id,
                                     "layergroup")
                  IN  IF hits = << >>
                      THEN {[result |-> [found |-> FALSE],
                             db |-> [conn.db EXCEPT !.connection = "closed"]]}
                      ELSE {[result |-> [found |-> TRUE, uid |-> uid,
                                         formula |-> fetch_formula(uid),
                                         layer_group |-> IF lg = None THEN "p1"
                                                         ELSE lg],
                             db |-> [conn.db EXCEPT !.connection = "closed"]]}

\* what can be at dbpath
FetchDatabases ==
    {[connection |-> "none"] @@ d : d \in CliDatabases}
    \cup {[connection |-> "none", opened |-> FALSE] @@ d : d \in Databases}

\* uids asked for: three of the pool, one that no database holds
FetchUids ==
    {<<"M", "o", "S", "2", "-", "1">>, <<"W", "S", "2", "-", "1">>,
     <<"4", "P", "-", "1">>, <<"X", "e", "-", "1">>}

InitFetch ==
    /\ IdleSymmetry
    /\ call = {}
    /\ database \in FetchDatabases
    /\ args \in [uid : FetchUids]
    /\ ret = << >>
    /\ files = {}

FetchByUid ==
    /\ call = {}
    /\ \E out \in fetch_by_uid(args.uid, database) :
          /\ ret' = out.result
          /\ database' = out.db
    /\ call' = {"fetch_by_uid"}
    /\ UNCHANGED <<symmetry_vars, args, files>>

NextFetch == FetchByUid

SpecFetch == InitFetch /\ [][NextFetch]_vars

\* C23: a connection that fetch_by_uid opened is closed when the call has
\* returned, whether the uid was unmatched, found, or a query raised; when
\* nothing is at the path no connection is opened and the result is absent.
C23_AsStated ==
    Called("fetch_by_uid") =>
        /\ database.connection # "open"
        /\ database.opened => database.connection = "closed"
        /\ database.file = "missing" => ~database.opened /\ ~ret.found

---------------------------------------------------------------------------
(* WS2 generator (example/WS2/withcif/create_correct_AB_BA.py).  Lengths    *)
(* are in units of 1/Unit Angstrom, fractional coordinates in units of      *)
(* 1/Unit; a quotient is rounded down to a unit.                            *)

\* vacuum = 15.0
Vacuum == 15

\* a / b
quotient(a, b) == (a * Unit) \div b

RECURSIVE py_min(_)
\* min(values) of a non-empty list
py_min(values) ==
    IF Len(values) = 1 THEN values[1]
    ELSE LET m == py_min(Tail(values))
         IN  IF m < values[1] THEN m ELSE values[1]

RECURSIVE py_max(_)
\* max(values) of a non-empty list
py_max(values) ==
    IF Len(values) = 1 THEN values[1]
    ELSE LET m == py_max(Tail(values))
         IN  IF values[1] < m THEN m ELSE values[1]

\* create_bilayer_cif: the exception raised (or "None") and the file left
\* at output_file: written tells whether the file was opened, cell the
\* lattice lines, rows the atom lines in order
create_bilayer_cif(monolayer_data, tau_, interlayer_distance_angstrom, stacking_type_) ==
    LET atoms == monolayer_data.atoms
        z_coords == [i \in 1..Len(atoms) |-> atoms[i].z]
        z_min == py_min(z_coords)
        z_max == py_max(z_coords)
        layer_thickness_frac == z_max - z_min
        layer_thickness_ang == (layer_thickness_frac * monolayer_data.c) \div Unit
        new_c_angstrom == Vacuum * Unit + layer_thickness_ang
                          + interlayer_distance_angstrom
                          + layer_thickness_ang + Vacuum * Unit
        cell == [a |-> monolayer_data.a, b |-> monolayer_data.b,
                 c |-> new_c_angstrom, alpha |-> monolayer_data.alpha,
                 beta |-> monolayer_data.beta, gamma |-> monolayer_data.gamma]
        layer1_center_ang == Vacuum * Unit + layer_thickness_ang \div 2
        layer2_center_ang == Vacuum * Unit + layer_thickness_ang
                             + interlayer_distance_angstrom
                             + layer_thickness_ang \div 2
        new_z(center, z) ==
            LET z_normalized == quotient(z - z_min, layer_thickness_frac)
                z_layer == ((z_normalized - Unit \div 2) * layer_thickness_ang)
                           \div Unit
            IN  quotient(center + z_layer, new_c_angstrom)
        layer1 == [i \in 1..Len(atoms) |->
                     [element |-> atoms[i].element,
                      label |-> <<atoms[i].label, "_L1">>,
                      x |-> atoms[i].x, y |-> atoms[i].y,
                      z |-> new_z(layer1_center_ang, atoms[i].z)]]
        layer2 == [i \in 1..Len(atoms) |->
                     [element |-> atoms[i].element,
                      label |-> <<atoms[i].label, "_L2">>,
                      x |-> (atoms[i].x + tau_[1]) % Unit,
                      y |-> (atoms[i].y + tau_[2]) % Unit,
                      z |-> new_z(layer2_center_ang, atoms[i].z)]]
    IN  IF atoms = << >>
        THEN [raised |-> "ValueError", written |-> FALSE,
              stacking_type |-> stacking_type_, cell |-> << >>, rows |-> << >>]
        ELSE IF layer_thickness_frac = 0
        THEN [raised |-> "ZeroDivisionError", written |-> TRUE,
              stacking_type |-> stacking_type_, cell |-> cell, rows |-> << >>]
        ELSE [raised |-> "None", written |-> TRUE,
              stacking_type |-> stacking_type_, cell |-> cell,
              rows |-> layer1 \o layer2]

\* most atoms of a monolayer
MaxCifAtoms == 2

\* atoms a monolayer is built of: a metal in the middle plane, a chalcogen
\* above and one below it, and a second atom in the middle plane
CifAtoms ==
    {[element |-> "W", label |-> "W1", x |-> 0, y |-> 0, z |-> Unit \div 2],
     [element |-> "S", label |-> "S1", x |-> Unit \div 4, y |-> (3 * Unit) \div 4,
      z |-> Unit \div 2 + 4],
     [element |-> "S", label |-> "S2", x |-> Unit \div 4, y |-> (3 * Unit) \div 4,
      z |-> Unit \div 2 - 4],
     [element |-> "N", label |-> "N1", x |-> (3 * Unit) \div 4, y |-> Unit \div 4,
      z |-> Unit \div 2]}

Monolayers ==
    {[a |-> 3 * Unit, b |-> 3 * Unit, c |-> 20 * Unit, alpha |-> 90,
      beta |-> 90, gamma |-> 120, atoms |-> atoms] :
        atoms \in UNION {[1..n -> CifAtoms] : n \in 0..MaxCifAtoms}}

\* stacking vectors of the AB and the BA file
CifTaus == {<<Unit \div 4, Unit \div 4>>, <<Unit \div 2, 0>>,
            <<(3 * Unit) \div 4, (3 * Unit) \div 4>>}

InitCif ==
    /\ IdleSymmetry
    /\ call = {}
    /\ database = << >>
    /\ args \in [monolayer_data : Monolayers,
                 interlayer_distance : {3 * Unit + 6},
                 tau : [{"AB", "BA"} -> CifTaus]]
    /\ ret = << >>
    /\ files = {}

\* one pass of main()'s loop over the stackings: the file of one stacking
\* type that has not been written yet; an exception ends the script
CreateBilayerCif ==
    /\ \A done \in DOMAIN ret : ret[done] = "None"
    /\ \E st \in {"AB", "BA"} \ DOMAIN ret :
       \E out \in {create_bilayer_cif(args.monolayer_data, args.tau[st],
                                      args.interlayer_distance, st)} :
          /\ ret' = ret @@ (st :> out.raised)
          /\ files' = IF out.written THEN files \cup {out} ELSE files
    /\ call' = call \cup {"create_bilayer_cif"}
    /\ UNCHANGED <<symmetry_vars, args, database>>

NextCif == CreateBilayerCif

SpecCif == InitCif /\ [][NextCif]_vars

\* the file written for a stacking type
cif_of(st) == CHOOSE f \in files : f.stacking_type = st

\* t, the monolayer thickness, and N, its number of atoms
Thickness(m) ==
    LET zs == {m.atoms[i].z : i \in 1..Len(m.atoms)}
        top == CHOOSE z \in zs : \A w \in zs : w <= z
        low == CHOOSE z \in zs : \A w \in zs : z <= w
    IN  ((top - low) * m.c) \div Unit

\* the file of stacking type st has the cell and the 2N atoms of the claim
CifAsClaimed(st) ==
    LET m == args.monolayer_data
        n == Len(m.atoms)
    IN  /\ ret[st] = "None"
        /\ \E f \in files :
              /\ f.stacking_type = st
              /\ f.cell.c = 2 * Vacuum * Unit + 2 * Thickness(m)
                            + args.interlayer_distance
              /\ Len(f.rows) = 2 * n
              /\ \A i \in 1..n :
                    /\ f.rows[i].label = <<m.atoms[i].label, "_L1">>
                    /\ f.rows[i].x = m.atoms[i].x
                    /\ f.rows[i].y = m.atoms[i].y
                    /\ f.rows[n + i].label = <<m.atoms[i].label, "_L2">>
                    /\ f.rows[n + i].x = (m.atoms[i].x + args.tau[st][1]) % Unit
                    /\ f.rows[n + i].y = (m.atoms[i].y + args.tau[st][2]) % Unit

\* C24: for a monolayer of at least one atom and any tau, the file written
\* has c = 15 + t + d + t + 15, N atoms _L1 with the in-plane coordinates
\* unchanged and N atoms _L2 shifted by tau modulo 1; the AB and the BA
\* file of one monolayer have the same lattice parameters.
C24_AsStated ==
    Len(args.monolayer_data.atoms) >= 1 =>
        /\ \A st \in DOMAIN ret : CifAsClaimed(st)
        /\ DOMAIN ret = {"AB", "BA"} => cif_of("AB").cell = cif_of("BA").cell

---------------------------------------------------------------------------
(* Claims about the pairing and the representatives (Spec) *)

\* the stacking vectors of the members of the pairs, in order
pair_taus(ps) == [m \in 1..(2 * Len(ps)) |-> ps[(m + 1) \div 2][2 - (m % 2)].tau]

\* the stacking vectors of scan_grid's 'polar' list
polar_taus == {c.tau : c \in Range(scan_grid(operations, grid_size).polar)}

\* no configuration is a member of two pairs or twice of one
PairsDisjoint ==
    \A m, q \in 1..(2 * Len(pairs)) :
        pair_taus(pairs)[m] = pair_taus(pairs)[q] => m = q

\* the AB member is labelled 'AB', the BA member 'BA', and the coordinate
\* sum of the AB member is not the larger one
PairsOrdered ==
    \A k \in 1..Len(pairs) :
        /\ pairs[k][1].type = "AB"
        /\ pairs[k][2].type = "BA"
        /\ tau_sum(pairs[k][1].tau) <= tau_sum(pairs[k][2].tau)

NoMirrorGroups ==
    {lg \in DOMAIN LAYER_GROUP_OPERATIONS :
        {"Mx", "My"} \cap Range(LAYER_GROUP_OPERATIONS[lg]) = {}}

C27_AsStated ==
    Called("get_representative_stackings") =>
        Cardinality(DOMAIN representatives) =
            1 + 2 * Len(find_polar_pairs(operations, grid_size))

---------------------------------------------------------------------------
(* Claims about the identity operation (SpecTau) *)

\* 2 * tau_x and 2 * tau_y are integers within the tolerance 1e-6
TwiceTauNearInteger ==
    /\ FracDist(2 * tau[1]) <= One \div 10^6
    /\ FracDist(2 * tau[2]) <= One \div 10^6

\* C28 as stated: E is reported preserved at tau exactly when tau_x and
\* tau_y are in {0, 1/2}; every polar stacking has E broken; all operations
\* are preserved only at tau_x, tau_y in {0, 1/2}.
C28_AsStated ==
    Called("test_symmetry_preservation") =>
        /\ preserved["E"] <=> (tau[1] \in {0, Half} /\ tau[2] \in {0, Half})
        /\ (Called("classify_stacking") /\ stacking_type = "polar")
              => ~preserved["E"]
        /\ (\A name \in DOMAIN preserved : preserved[name])
              => (tau[1] \in {0, Half} /\ tau[2] \in {0, Half})

\* C28, amended: E is reported preserved at tau exactly when 2 * tau_x and
\* 2 * tau_y are within 1e-6 of an integer; every stacking classified polar
\* has E broken; all operations are preserved only at such tau.
C28_EPreservedWithinTolerance ==
    Called("test_symmetry_preservation") =>
        /\ preserved["E"] <=> TwiceTauNearInteger
        /\ (Called("classify_stacking") /\ stacking_type = "polar")
              => ~preserved["E"]
        /\ (\A name \in DOMAIN preserved : preserved[name])
              => TwiceTauNearInteger

C28_Witness ==
    /\ Called("test_symmetry_preservation")
    /\ layer_group = "p2mm"
    /\ tau = <<Nudge, Half + Nudge>>
    /\ preserved["E"]
    /\ \A name \in DOMAIN preserved : preserved[name]

---------------------------------------------------------------------------
(* Decoding of the numbers blob in get_material_by_uid                      *)
(* (sympol2d/c2db_interface.py).  A blob is a sequence of bytes, or NoBlob  *)
(* for a NULL column.                                                       *)

NoBlob == <<"NULL">>

\* the width little-endian bytes of an integer 0 <= v < 2^24
le_bytes(v, width) ==
    [k \in 1..width |-> IF k > 3 THEN 0 ELSE (v \div (256 ^ (k - 1))) % 256]

\* ndarray.tobytes() of an integer array of the given item size
tobytes(values, width) ==
    [k \in 1..(width * Len(values)) |->
        le_bytes(values[1 + ((k - 1) \div width)], width)[1 + ((k - 1) % width)]]

\* the integer of width little-endian bytes starting at position at
le_value(blob, at, width) ==
    LET digits == [k \in 1..width |->
                      IF blob[at + k - 1] = 0 THEN 0
                      ELSE blob[at + k - 1] * 256 ^ (k - 1)]
    IN  sum(digits)

\* np.frombuffer(blob, dtype) for an integer dtype of the given item size:
\* the array, or the exception raised
np_frombuffer(blob, width) ==
    IF blob = NoBlob THEN Raise("TypeError")
    ELSE IF Len(blob) % width # 0 THEN Raise("ValueError")
    ELSE [raised |-> "None",
          array |-> [i \in 1..(Len(blob) \div width) |->
                        le_value(blob, 1 + (i - 1) * width, width)]]

\* "Handle atomic numbers": np.int32, else np.int64, else np.ones(natoms)
decode_numbers(num_blob, natoms) ==
    IF np_frombuffer(num_blob, 4).raised = "None"
    THEN np_frombuffer(num_blob, 4).array
    ELSE IF np_frombuffer(num_blob, 8).raised = "None"
    THEN np_frombuffer(num_blob, 8).array
    ELSE [i \in 1..natoms |-> 1]

\* how the numbers column was written: as 32-bit integers, as 64-bit
\* integers, cut short by one byte, or NULL
stored_blob(values, encoding) ==
    CASE encoding = "int32" -> tobytes(values, 4)
      [] encoding = "int64" -> tobytes(values, 8)
      [] encoding = "truncated" ->
            SubSeq(tobytes(values, 4), 1, 4 * Len(values) - 1)
      [] OTHER -> NoBlob

BlobEncodings == {"int32", "int64", "truncated", "null"}

InitNumbers ==
    /\ IdleSymmetry
    /\ call = {}
    /\ \E n \in 1..MaxNumbers : \E numbers \in [1..n -> AtomicNumberInputs] :
       \E encoding \in BlobEncodings :
          args = [numbers |-> numbers, encoding |-> encoding, natoms |-> n]
    /\ ret = << >>
    /\ database = << >>
    /\ files = {}

\* the part of get_material_by_uid that builds Material2D.numbers and
\* Material2D.natoms from the row found
DecodeNumbers ==
    /\ call = {}
    /\ call' = {"get_material_by_uid"}
    /\ ret' = [numbers |-> decode_numbers(stored_blob(args.numbers, args.encoding),
                                          args.natoms),
               natoms |-> args.natoms]
    /\ UNCHANGED <<symmetry_vars, args, database, files>>

NextNumbers == DecodeNumbers

SpecNumbers == InitNumbers /\ [][NextNumbers]_vars

\* C29: the Material2D returned has exactly natoms atomic numbers: the
\* stored values when the blob holds them as 32-bit or as 64-bit integers,
\* and all ones when neither decoding succeeds.
C29_AsStated ==
    Called("get_material_by_uid") =>
        /\ Len(ret.numbers) = ret.natoms
        /\ args.encoding \in {"int32", "int64"} => ret.numbers = args.numbers
        /\ args.encoding \in {"truncated", "null"} =>
              ret.numbers = [i \in 1..ret.natoms |-> 1]

---------------------------------------------------------------------------
(* classify_z_allowed on every list of surviving operation names *)

\* the lists of survivors: every subset of the operation names, in the
\* order of the catalogue's lists
SurvivorLists ==
    {SelectSeq(<<"E", "C2", "C3", "C4", "C6", "Mx", "My">>, LAMBDA op : op \in S) :
        S \in SUBSET OpNames}

InitClassify ==
    /\ IdleSymmetry
    /\ call = {}
    /\ args \in [survivors : SurvivorLists]
    /\ ret = << >>
    /\ database = << >>
    /\ files = {}

ClassifyZAllowed ==
    /\ call = {}
    /\ call' = {"classify_z_allowed"}
    /\ ret' = classify_z_allowed(args.survivors)
    /\ UNCHANGED <<symmetry_vars, args, database, files>>

NextClassify == ClassifyZAllowed

SpecClassify == InitClassify /\ [][NextClassify]_vars

\* C30: classify_z_allowed returns True as its first result for every list
\* of survivors; its tag is 'z-only' when C2 is among them and neither Mx
\* nor My is, and 'z-allowed' otherwise.
C30_NeverRejects ==
    Called("classify_z_allowed") =>
        /\ ret[1] = TRUE
        /\ ret[2] = IF /\ "C2" \in Range(args.survivors)
                       /\ "Mx" \notin Range(args.survivors)
                       /\ "My" \notin Range(args.survivors)
                    THEN "z-only"
                    ELSE "z-allowed"

C30_Witness ==
    /\ Called("classify_z_allowed")
    /\ args.survivors = <<"E", "C2", "Mx", "My">>
    /\ ret = <<TRUE, "z-allowed">>

\* ---------------------------------------------------------------------------
\* Workflow B: the layer-group-driven single-pair search
\* (search --layer-group / --uid with --poscar / --export).  The cli.py under
\* src/ holds Workflow A only; the handler below follows the description of
\* Workflow B, and resolves a uid with fetch_by_uid of c2db_interface.py.
\* ---------------------------------------------------------------------------

\* mutant of resolve_layer_group: --uid is not consulted
resolve_layer_group_unfetched(a, fetched) == a.layer_group

\* the layer group a run works with: --layer-group when given, else the layer
\* group of the record that the UID-fetch helper returned, else none
resolve_layer_group(a, fetched) ==
    IF a.layer_group # None THEN a.layer_group
    ELSE IF a.uid # NoText /\ fetched.found THEN fetched.layer_group
    ELSE None

\* the lean scan of an n x n grid: every point is kept and tagged
lean_scan(lg, n) ==
    {candidate(lg, <<grid_1d(n, i), grid_1d(n, j)>>) : i, j \in 0..(n - 1)}

\* the files an export writes, or the error that stops it
export_pair(a, fetched) ==
    CASE a.export = "poscar" /\ a.poscar # "present" ->
             [status |-> 1, written |-> {}]
      [] a.export = "poscar" ->
             [status |-> 0, written |-> {<<a.out_prefix, "_AB.vasp">>,
                                         <<a.out_prefix, "_BA.vasp">>}]
      [] a.export = "cif" /\ (a.uid = NoText \/ ~fetched.found) ->
             [status |-> 1, written |-> {}]
      [] OTHER ->
             [status |-> 0, written |-> {<<a.out_prefix, "_AB.cif">>,
                                         <<a.out_prefix, "_BA.cif">>}]

\* one run of Workflow B after the uid, if any, has been fetched: the exit
\* status, the layer group, the number of candidates, the pairs that may be
\* chosen, and the files written
search_layer_group(a, fetched) ==
    LET lg == resolve_layer_group(a, fetched)
        none == [status |-> 2, layer_group |-> None, count |-> 0,
                 pairs |-> {}, flip |-> FALSE, written |-> {}]
    IN  IF lg = None THEN none
        ELSE IF lg \notin DOMAIN LAYER_GROUP_OPERATIONS
        THEN [none EXCEPT !.status = 1, !.layer_group = lg]
        ELSE LET cands == lean_scan(lg, a.grid)
                 flip == Z_SIGN_FLIP_EXPECTED[lg]
                 found == [none EXCEPT !.status = 0, !.layer_group = lg,
                                       !.count = Cardinality(cands),
                                       !.flip = flip]
             IN  IF cands = {} THEN found
                 ELSE LET chosen == [found EXCEPT !.pairs =
                                 {best_pair_of(c) : c \in best_candidates(cands)}]
                          exported == export_pair(a, fetched)
                      IN  IF a.export = None \/ ~(flip \/ a.allow_nonflipping)
                          THEN chosen
                          ELSE [chosen EXCEPT !.status = exported.status,
                                              !.written = exported.written]

\* --layer-group: absent, a group that is expected to flip, one that is not,
\* and a symbol that the operation table does not list
LeanGroupInputs == {None, "p3m1", "p2mm", "p5"}

\* --uid: absent, a uid of the pool, a uid that no database holds
LeanUidInputs == {NoText, <<"M", "o", "S", "2", "-", "1">>, <<"X", "e", "-", "1">>}

LeanArgs ==
    [layer_group : LeanGroupInputs, uid : LeanUidInputs, grid : {0, MaxCliGrid},
     export : {None, "poscar", "cif"}, poscar : {None, "missing", "present"},
     out_prefix : {"sympol2d"}, allow_nonflipping : BOOLEAN]

InitLean ==
    /\ IdleSymmetry
    /\ call = {}
    /\ database \in {[connection |-> "none"] @@ d : d \in CliDatabases}
    /\ args \in LeanArgs
    /\ ret = << >>
    /\ files = {}

\* main() with the command "search" in Workflow B
SearchLayerGroup ==
    /\ call = {}
    /\ \E f \in IF args.uid # NoText /\ (args.layer_group = None \/ args.export = "cif")
                THEN fetch_by_uid(args.uid, database)
                ELSE {[result |-> [found |-> FALSE], db |-> database]} :
          \E out \in {search_layer_group(args, f.result)} :
             /\ out.status = 0 /\ out.count > 0 =>
                   \E pair \in out.pairs :
                      ret' = [status |-> out.status, layer_group |-> out.layer_group,
                              count |-> out.count, pair |-> pair, flip |-> out.flip]
             /\ ~(out.status = 0 /\ out.count > 0) =>
                   ret' = [status |-> out.status, layer_group |-> out.layer_group,
                           count |-> out.count, pair |-> None, flip |-> out.flip]
             /\ files' = files \cup out.written
             /\ database' = f.db
    /\ call' = {"search_layer_group"}
    /\ UNCHANGED <<symmetry_vars, args>>

NextLean == SearchLayerGroup

SpecLean == InitLean /\ [][NextLean]_vars

\* the uid given is the uid of a record of a readable database
uid_resolvable ==
    /\ args.uid # NoText
    /\ database.file = "sqlite"
    /\ \E i \in 1..Len(database.text_key_values) :
          /\ database.text_key_values[i].key = "uid"
          /\ database.text_key_values[i].value = args.uid

=============================================================================
